---- MODULE Spec2Model ----
(***************************************************************************)
(* Model of the FHEVM example hub automation scripts:                      *)
(*   scripts/create-fhevm-example.ts   (materializer)                      *)
(*   scripts/create-fhevm-category.ts  (bundler)                           *)
(*   scripts/generate-docs.ts          (documentation generator)           *)
(*                                                                         *)
(* Strings are sequences of tokens (a token is a TLA+ string standing for  *)
(* one or more characters that the code never splits), so that string      *)
(* conversions are computed.  Paths are sequences of strings, relative to  *)
(* the repository root, which is also the working directory.               *)
(***************************************************************************)
EXTENDS Integers, Sequences, FiniteSets, TLC

VARIABLES
  examplesMap,   \* EXAMPLES_MAP: sequence of [key, val], in insertion order
  categories,    \* CATEGORIES: sequence of [key, val], in insertion order
  fs,            \* the filesystem: path -> node
  now,           \* the clock read by new Date()
  last,          \* the last completed call or command, with the filesystem before it
  steps,         \* number of calls and commands so far
  input,         \* the text given to an extractor
  output,        \* what the extractor returned
  chain          \* the deployed FHECounter contract and its last transaction

vars == <<examplesMap, categories, fs, now, last, steps, input, output, chain>>

-----------------------------------------------------------------------------
(* Bounds of the model *)

MaxSteps == 2
MaxClock == 1

\* no contract is deployed while the scripts run
NoContract == [deployed |-> FALSE]

-----------------------------------------------------------------------------
(* Strings *)

S(tok) == <<tok>>

RECURSIVE Join(_, _)
\* Array.prototype.join: the strings of list, separated by sep
Join(list, sep) ==
  IF Len(list) = 0 THEN <<>>
  ELSE IF Len(list) = 1 THEN list[1]
  ELSE list[1] \o sep \o Join(Tail(list), sep)

MapSeq(Op(_), list) == [i \in 1..Len(list) |-> Op(list[i])]

ReplaceFirstUnderscore(s) ==
  IF \E i \in 1..Len(s) : s[i] = "_"
  THEN LET i == CHOOSE k \in 1..Len(s) : s[k] = "_" /\ \A j \in 1..(k-1) : s[j] # "_"
       IN [s EXCEPT ![i] = "-"]
  ELSE s

\* exampleName.replace(/_/g, "-")
ReplaceUnderscores(s) == [i \in 1..Len(s) |-> IF s[i] = "_" THEN "-" ELSE s[i]]

UpperTok(tok) ==
  CASE tok = "beginner" -> "BEGINNER"
    [] tok = "intermediate" -> "INTERMEDIATE"
    [] tok = "advanced" -> "ADVANCED"
    [] OTHER -> tok

\* String.prototype.toUpperCase
ToUpperCase(s) == [i \in 1..Len(s) |-> UpperTok(s[i])]

CapitalTok(tok) ==
  CASE tok = "enterprise" -> "Enterprise"
    [] tok = "basic" -> "Basic"
    [] tok = "advanced" -> "Advanced"
    [] OTHER -> tok

\* s.charAt(0).toUpperCase() + s.slice(1)
Capitalize(s) == IF Len(s) = 0 THEN s ELSE <<CapitalTok(s[1])>> \o Tail(s)

-----------------------------------------------------------------------------
(* Filesystem *)

DirNode == [kind |-> "dir"]
FileNode(c) == [kind |-> "file", content |-> c]

Parent(p) == SubSeq(p, 1, Len(p) - 1)
BaseName(p) == p[Len(p)]
Prefixes(p) == {SubSeq(p, 1, i) : i \in 1..Len(p)}
IsPrefix(d, p) == Len(d) <= Len(p) /\ SubSeq(p, 1, Len(d)) = d
Under(f, d) == {p \in DOMAIN f : IsPrefix(d, p) /\ p # d}

\* fs.existsSync
Exists(f, p) == p = <<>> \/ p \in DOMAIN f
IsDir(f, p) == p = <<>> \/ (p \in DOMAIN f /\ f[p].kind = "dir")
IsFile(f, p) == p \in DOMAIN f /\ f[p].kind = "file"

\* the names fs.readdirSync(p) lists
Children(f, p) == {BaseName(q) : q \in {x \in DOMAIN f : x # <<>> /\ Parent(x) = p}}

\* A run of one function: the filesystem so far, whether an exception is
\* pending, and the console lines printed.
Run(f) == [fs |-> f, ok |-> TRUE, log |-> <<>>]
Throw(r) == [r EXCEPT !.ok = FALSE]
Say(r, ev, arg) == IF r.ok THEN [r EXCEPT !.log = Append(@, [ev |-> ev, arg |-> arg])] ELSE r

\* the longest path the system accepts, in components (PATH_MAX): a longer
\* one makes the call fail with ENAMETOOLONG
MaxPathLen == 6

\* fs.mkdirSync(p, { recursive: true })
MkdirP(r, p) ==
  IF ~r.ok THEN r
  ELSE IF Len(p) > MaxPathLen THEN Throw(r)
  ELSE IF \E q \in Prefixes(p) : IsFile(r.fs, q) THEN Throw(r)
  ELSE [r EXCEPT !.fs = [q \in (DOMAIN r.fs) \cup Prefixes(p) |->
                           IF q \in DOMAIN r.fs THEN r.fs[q] ELSE DirNode]]

\* fs.writeFileSync(p, data)
WriteFile(r, p, data) ==
  IF ~r.ok THEN r
  ELSE IF Len(p) > MaxPathLen THEN Throw(r)
  ELSE IF ~IsDir(r.fs, Parent(p)) \/ IsDir(r.fs, p) THEN Throw(r)
  ELSE [r EXCEPT !.fs = [q \in (DOMAIN r.fs) \cup {p} |->
                           IF q = p THEN FileNode(data) ELSE r.fs[q]]]

\* a copy that refuses a destination that exists (COPYFILE_EXCL)
CopyFileExclusive(r, src, dst) ==
  IF ~r.ok THEN r
  ELSE IF ~IsFile(r.fs, src) \/ Exists(r.fs, dst) THEN Throw(r)
  ELSE WriteFile(r, dst, r.fs[src].content)

\* fs.copyFileSync(src, dst)
CopyFile(r, src, dst) ==
  IF ~r.ok THEN r
  ELSE IF ~IsFile(r.fs, src) THEN Throw(r)
  ELSE WriteFile(r, dst, r.fs[src].content)

-----------------------------------------------------------------------------
(* Registries *)

ConfidentialSupplierManagement == <<"confidential", "-", "supplier", "-", "management">>
FheCounter == <<"fhe", "-", "counter">>
MyNewExample == <<"my", "_", "new", "_", "example">>
Ghost == <<"ghost">>
Constructor == <<"constructor">>

SupplierManagementConfig ==
  [ name |-> S("Confidential Supplier Management System"),
    description |-> S("Privacy-preserving supplier management with encrypted ratings and comparisons"),
    category |-> S("enterprise"),
    contractFile |-> <<"SupplierManagement", ".sol">>,
    testFile |-> <<"SupplierManagement", ".ts">>,
    complexity |-> S("advanced"),
    keywords |-> <<S("access-control"), S("privacy"), S("enterprise"), S("supplier-management")>>,
    documentation |->
      [ overview |-> S("Demonstrates FHE-based supplier management with encrypted ratings, access control, and privacy-preserving operations."),
        keyFeatures |-> << S("Encrypted supplier ratings (euint8)"),
                           S("Privacy-preserving comparisons"),
                           S("Owner-only decryption access"),
                           S("Async callback-based decryption"),
                           S("Proper FHE permission handling") >>,
        learningOutcomes |-> << S("How to encrypt sensitive business data"),
                                S("Managing permissions for encrypted values"),
                                S("Implementing access control patterns"),
                                S("Async decryption workflows"),
                                S("Real-world enterprise applications of FHE") >> ] ]

FheCounterConfig ==
  [ name |-> S("FHE Counter"),
    description |-> S("Simple encrypted counter demonstrating basic FHE operations"),
    category |-> S("basic"),
    contractFile |-> <<"FHECounter", ".sol">>,
    testFile |-> <<"FHECounter", ".ts">>,
    complexity |-> S("beginner"),
    keywords |-> <<S("counter"), S("arithmetic"), S("encryption")>>,
    documentation |->
      [ overview |-> S("Demonstrates simple FHE counter with increment and decrement operations."),
        keyFeatures |-> << S("Encrypted counter state"),
                           S("Arithmetic operations on encrypted values"),
                           S("Basic permission handling"),
                           S("Event logging") >>,
        learningOutcomes |-> << S("How to work with encrypted integers"),
                                S("Basic FHE operations (add, subtract)"),
                                S("Permission management"),
                                S("Testing FHE contracts") >> ] ]

\* The table of scripts/create-fhevm-example.ts as written.
EXAMPLES_MAP ==
  << [key |-> ConfidentialSupplierManagement, val |-> SupplierManagementConfig],
     [key |-> FheCounter, val |-> FheCounterConfig] >>

\* An entry of the kind the contributing guide asks developers to add: an
\* ID with underscores, a category that has no heading of its own, a
\* contract file named MyNew.solver.sol, and no entry in DOCS_CONFIG.
MyNewExampleConfig ==
  [ name |-> S("My New Example"),
    description |-> S("An added example"),
    category |-> S("advanced"),
    contractFile |-> <<"MyNew", ".sol", "ver", ".sol">>,
    testFile |-> <<"MyNewExample", ".ts">>,
    complexity |-> S("intermediate"),
    keywords |-> <<S("x")>>,
    documentation |->
      [ overview |-> S("An added example."),
        keyFeatures |-> <<S("k1"), S("k2")>>,
        learningOutcomes |-> <<S("o1")>> ] ]

ExtendedExamplesMap ==
  EXAMPLES_MAP \o << [key |-> MyNewExample, val |-> MyNewExampleConfig] >>

\* The table of scripts/create-fhevm-category.ts as written.
CATEGORIES ==
  << [key |-> S("enterprise"),
      val |-> [ name |-> S("Enterprise Applications"),
                description |-> S("Production-grade FHE examples for business applications"),
                examples |-> <<ConfidentialSupplierManagement>>,
                keyTopics |-> << S("Privacy-preserving business logic"),
                                 S("Access control patterns"),
                                 S("Enterprise data protection"),
                                 S("Real-world FHE applications") >> ]],
     [key |-> S("basic"),
      val |-> [ name |-> S("Basic Examples"),
                description |-> S("Foundational FHEVM concepts and operations"),
                examples |-> <<FheCounter>>,
                keyTopics |-> << S("Encryption basics"),
                                 S("Arithmetic operations"),
                                 S("Permission management"),
                                 S("Testing FHE contracts") >> ]] >>

\* The same table with a category that lists an unregistered ID.
ExtendedCategories ==
  << CATEGORIES[1],
     [key |-> S("basic"),
      val |-> [CATEGORIES[2].val EXCEPT !.examples = <<FheCounter, Ghost>>]],
     [key |-> S("advanced"),
      val |-> [ name |-> S("Advanced Examples"),
                description |-> S("Added examples"),
                examples |-> <<MyNewExample>>,
                keyTopics |-> <<S("t1")>> ]] >>

\* Object.keys(table)
Keys(table) == [i \in 1..Len(table) |-> table[i].key]

\* Names every object literal inherits from Object.prototype.
InheritedKeys == {Constructor}

\* table[key] on an object literal: the own property when there is one,
\* else the inherited one, else undefined.
Lookup(table, key) ==
  IF \E i \in 1..Len(table) : table[i].key = key
  THEN [kind |-> "entry",
        val |-> table[CHOOSE i \in 1..Len(table) : table[i].key = key].val]
  ELSE IF key \in InheritedKeys THEN [kind |-> "inherited"]
  ELSE [kind |-> "undefined"]

-----------------------------------------------------------------------------
(* File contents *)

Text(body) == [type |-> "text", body |-> body]
Json(fields) == [type |-> "json", fields |-> fields]

JStr(s) == [t |-> "string", s |-> s]
JList(l) == [t |-> "array", l |-> l]
JObj(o) == [t |-> "object", o |-> o]

Reverse(list) == [i \in 1..Len(list) |-> list[Len(list) + 1 - i]]

HasKey(fields, k) == \E i \in 1..Len(fields) : fields[i].k = k
Get(fields, k) == fields[CHOOSE i \in 1..Len(fields) : fields[i].k = k].v

\* JSON.parse of an object text with the members fields: one property per
\* key, at the place of the first member with that key and with the value
\* of the last one.
JsonParse(fields) ==
  LET firsts == {i \in 1..Len(fields) : \A j \in 1..(i-1) : fields[j].k # fields[i].k}
      Nth[n \in 1..Cardinality(firsts)] ==
        CHOOSE i \in firsts : Cardinality({j \in firsts : j <= i}) = n
  IN [n \in 1..Cardinality(firsts) |->
        [k |-> fields[Nth[n]].k, v |-> Get(Reverse(fields), fields[Nth[n]].k)]]

\* JSON.stringify(obj, null, 2): the properties in order, those whose value
\* is undefined left out.
JsonStringify(obj) == SelectSeq(obj, LAMBDA m : m.v.t # "undefined")

\* an assignment that makes v the only property
JsonSetAlone(fields, k, v) == <<[k |-> k, v |-> v]>>

\* obj[k] = v on a parsed object: an existing property keeps its place, a
\* new one is added last.
JsonSet(fields, k, v) ==
  IF HasKey(fields, k)
  THEN [i \in 1..Len(fields) |-> IF fields[i].k = k THEN [k |-> k, v |-> v] ELSE fields[i]]
  ELSE Append(fields, [k |-> k, v |-> v])

-----------------------------------------------------------------------------
(* scripts/create-fhevm-example.ts *)

TemplatePath == <<S("base-template")>>
ContractsPath == <<S("contracts")>>
TestPath == <<S("test")>>

ExampleSkip == {S("node_modules"), S("artifacts"), S("cache"), S(".git")}

RECURSIVE CopyEntries(_, _, _, _, _)
RECURSIVE CopyDirectory(_, _, _, _)

\* the loop of copyDirectory over the entries readdirSync listed
CopyEntries(r, src, dest, names, skip) ==
  IF ~r.ok \/ names = {} THEN r
  ELSE LET n == CHOOSE x \in names : TRUE
           r1 == IF n \in skip THEN r
                 ELSE IF IsDir(r.fs, Append(src, n))
                      THEN CopyDirectory(r, Append(src, n), Append(dest, n), skip)
                      ELSE CopyFile(r, Append(src, n), Append(dest, n))
       IN CopyEntries(r1, src, dest, names \ {n}, skip)

\* copyDirectory(src, dest), skipping the entries named in skip
CopyDirectory(r, src, dest, skip) ==
  LET r1 == IF Exists(r.fs, dest) THEN r ELSE MkdirP(r, dest)
  IN IF ~r1.ok THEN r1
     ELSE IF ~IsDir(r1.fs, src) THEN Throw(r1)
     ELSE CopyEntries(r1, src, dest, Children(r1.fs, src), skip)

\* updatePackageJson(outputPath, exampleName, config), Date read as t
updatePackageJson(r, outputPath, exampleName, config, t) ==
  LET p == Append(outputPath, S("package.json"))
  IN IF ~r.ok THEN r
     ELSE IF ~IsFile(r.fs, p) THEN Throw(r)
     ELSE IF r.fs[p].content.type # "json" THEN Throw(r)
     ELSE LET f0 == JsonParse(r.fs[p].content.fields)
              f1 == JsonSet(f0, "name", JStr(ReplaceUnderscores(exampleName)))
              f2 == JsonSet(f1, "description", JStr(config.description))
              f3 == JsonSet(f2, "keywords", JList(config.keywords))
              f4 == JsonSet(f3, "fhevmExample",
                            JObj([ name |-> config.name,
                                   category |-> config.category,
                                   complexity |-> config.complexity,
                                   generatedAt |-> t ]))
          IN WriteFile(r, p, Json(JsonStringify(f4)))

Bullet(s) == S("- ") \o s

\* generateReadme(outputPath, exampleName, config), Date read as t
generateReadme(r, outputPath, exampleName, config, t) ==
  WriteFile(r, Append(outputPath, S("README.md")),
            [ type |-> "readme",
              title |-> config.name,
              overview |-> config.documentation.overview,
              complexity |-> ToUpperCase(config.complexity),
              keyFeatures |-> Join(MapSeq(Bullet, config.documentation.keyFeatures), S("\n")),
              learningOutcomes |-> Join(MapSeq(Bullet, config.documentation.learningOutcomes), S("\n")),
              contract |-> S("contracts/") \o config.contractFile,
              tests |-> S("test/") \o config.testFile,
              category |-> Capitalize(config.category),
              generated |-> t ])

\* a createMetadata that records the time of the run under the key
\* "documentation" as well
createMetadataStampingDocumentation(r, outputPath, exampleName, config, t) ==
  WriteFile(r, Append(outputPath, S(".fhevm-example.json")),
            Json(<< [k |-> "id", v |-> JStr(exampleName)],
                    [k |-> "name", v |-> JStr(config.name)],
                    [k |-> "description", v |-> JStr(config.description)],
                    [k |-> "category", v |-> JStr(config.category)],
                    [k |-> "complexity", v |-> JStr(config.complexity)],
                    [k |-> "keywords", v |-> JList(config.keywords)],
                    [k |-> "contractFile", v |-> JStr(config.contractFile)],
                    [k |-> "testFile", v |-> JStr(config.testFile)],
                    [k |-> "generatedAt", v |-> [t |-> "date", at |-> t]],
                    [k |-> "documentation", v |-> [t |-> "date", at |-> t]] >>))

\* createMetadata(outputPath, exampleName, config), Date read as t
createMetadata(r, outputPath, exampleName, config, t) ==
  WriteFile(r, Append(outputPath, S(".fhevm-example.json")),
            Json(<< [k |-> "id", v |-> JStr(exampleName)],
                    [k |-> "name", v |-> JStr(config.name)],
                    [k |-> "description", v |-> JStr(config.description)],
                    [k |-> "category", v |-> JStr(config.category)],
                    [k |-> "complexity", v |-> JStr(config.complexity)],
                    [k |-> "keywords", v |-> JList(config.keywords)],
                    [k |-> "contractFile", v |-> JStr(config.contractFile)],
                    [k |-> "testFile", v |-> JStr(config.testFile)],
                    [k |-> "generatedAt", v |-> [t |-> "date", at |-> t]],
                    [k |-> "documentation", v |-> JObj(config.documentation)] >>))

\* The result of a call: the filesystem it leaves, how it ended ("ok": it
\* returned, "exit0"/"exit1": process.exit, "throw": an exception left it),
\* and the console lines.
Result(r, status) == [fs |-> r.fs, status |-> status, log |-> r.log]

\* the payload copy of createExample steps 3 and 4
CopyPayload(r, config, srcDir, field, outputPath, destDir) ==
  IF ~r.ok THEN r
  ELSE IF config.kind # "entry" THEN Throw(r)
  ELSE LET file == config.val[field]
           src == Append(srcDir, file)
       IN IF Exists(r.fs, src)
          THEN Say(CopyFile(r, src, outputPath \o <<destDir, file>>), "log", S("Copied ") \o file)
          ELSE r

\* createExample(exampleName, outputPath), the three Date reads as ts
createExample(f, table, ts, exampleName, outputPath) ==
  LET config == Lookup(table, exampleName)
  IN IF config.kind = "undefined"
     THEN Result(Say(Say(Run(f), "error", S("Example not found: ") \o exampleName),
                     "log", S("Available examples: ") \o Join(Keys(table), S(", "))),
                 "exit1")
     ELSE
       LET r0 == Say(Run(f), "log", S("Creating FHEVM Example"))
           r1 == IF ~Exists(r0.fs, outputPath)
                 THEN Say(MkdirP(r0, outputPath), "log", S("Created directory"))
                 ELSE r0
           r2 == Say(CopyDirectory(r1, TemplatePath, outputPath, ExampleSkip),
                     "log", S("Copied base template"))
           r3 == CopyPayload(r2, config, ContractsPath, "contractFile", outputPath, S("contracts"))
           r4 == CopyPayload(r3, config, TestPath, "testFile", outputPath, S("test"))
           r5 == Say(updatePackageJson(r4, outputPath, exampleName, config.val, ts[1]),
                     "log", S("Updated package.json"))
           r6 == Say(generateReadme(r5, outputPath, exampleName, config.val, ts[2]),
                     "log", S("Generated README.md"))
           r7 == Say(createMetadata(r6, outputPath, exampleName, config.val, ts[3]),
                     "log", S("Example created successfully!"))
       IN IF r7.ok THEN Result(r7, "ok")
          ELSE Result([r7 EXCEPT !.log = Append(@, [ev |-> "error", arg |-> S("Error creating example")])],
                      "exit1")

-----------------------------------------------------------------------------
(* scripts/create-fhevm-category.ts *)

\* a skip list that lets the payload directories of the template through
CategorySkipWithoutPayloadDirs == ExampleSkip

\* the names copyDirectory of the bundler leaves out (line 173)
CategorySkip == ExampleSkip \cup {S("contracts"), S("test")}

\* f.replace(".sol", ""): the first occurrence of ".sol" removed
RemoveFirstSol(f) ==
  IF \E i \in 1..Len(f) : f[i] = ".sol"
  THEN LET i == CHOOSE k \in 1..Len(f) : f[k] = ".sol" /\ \A j \in 1..(k-1) : f[j] # ".sol"
       IN SubSeq(f, 1, i-1) \o SubSeq(f, i+1, Len(f))
  ELSE f

\* one payload copy of the loop of createCategory; st is the loop state
\* [r, contractFiles, testFiles]
CopyBundled(st, exampleConfig, srcDir, field, destDir, list) ==
  IF ~st.r.ok THEN st
  ELSE IF exampleConfig.kind # "entry" THEN [st EXCEPT !.r = Throw(@)]
  ELSE LET file == exampleConfig.val[field]
           src == Append(srcDir, file)
       IN IF Exists(st.r.fs, src)
          THEN LET r1 == CopyFile(st.r, src, Append(destDir, file))
               IN IF r1.ok THEN [st EXCEPT !.r = r1, ![list] = Append(@, file)]
                  ELSE [st EXCEPT !.r = r1]
          ELSE st

RECURSIVE CopyExamples(_, _, _, _, _)
\* the loop "for (const exampleName of config.examples)" from index i on
CopyExamples(st, table, examples, i, outputPath) ==
  IF ~st.r.ok \/ i > Len(examples) THEN st
  ELSE LET exampleConfig == Lookup(table, examples[i])
       IN IF exampleConfig.kind = "undefined"
          THEN CopyExamples([st EXCEPT !.r = Say(@, "warn", S("Example not found: ") \o examples[i])],
                            table, examples, i + 1, outputPath)
          ELSE LET s1 == CopyBundled(st, exampleConfig, ContractsPath, "contractFile",
                                     Append(outputPath, S("contracts")), "contractFiles")
                   s2 == CopyBundled(s1, exampleConfig, TestPath, "testFile",
                                     Append(outputPath, S("test")), "testFiles")
               IN CopyExamples(s2, table, examples, i + 1, outputPath)

\* updatePackageJson(outputPath, categoryName, config) of the category script
categoryUpdatePackageJson(r, outputPath, categoryName, config, t) ==
  LET p == Append(outputPath, S("package.json"))
  IN IF ~r.ok THEN r
     ELSE IF ~IsFile(r.fs, p) THEN Throw(r)
     ELSE IF r.fs[p].content.type # "json" THEN Throw(r)
     ELSE LET f0 == JsonParse(r.fs[p].content.fields)
              f1 == JsonSet(f0, "name", JStr(S("fhevm-") \o categoryName \o S("-examples")))
              f2 == JsonSet(f1, "description", JStr(config.description))
              f3 == JsonSet(f2, "keywords", JList(<<categoryName, S("fhevm"), S("examples")>>))
              f4 == JsonSet(f3, "fhevmCategory",
                            JObj([ name |-> config.name,
                                   category |-> categoryName,
                                   examples |-> Len(config.examples),
                                   generatedAt |-> t ]))
          IN WriteFile(r, p, Json(JsonStringify(f4)))

\* exampleConfig?.field as interpolated into a template string
Interpolated(exampleConfig, field) ==
  IF exampleConfig.kind = "entry" THEN exampleConfig.val[field] ELSE S("undefined")

\* one entry of "Included Examples" in the category README
IncludedExample(table, example) ==
  LET exampleConfig == Lookup(table, example)
  IN [ title |-> IF exampleConfig.kind = "entry" THEN exampleConfig.val.name
                 ELSE IF exampleConfig.kind = "inherited" THEN S("Object")
                 ELSE example,
       description |-> IF exampleConfig.kind = "entry" THEN exampleConfig.val.description
                       ELSE <<>>,
       contract |-> S("contracts/") \o Interpolated(exampleConfig, "contractFile"),
       tests |-> S("test/") \o Interpolated(exampleConfig, "testFile") ]

\* generateReadme(outputPath, categoryName, config, contractFiles, testFiles)
categoryGenerateReadme(r, table, outputPath, categoryName, config, contractFiles, testFiles, t) ==
  WriteFile(r, Append(outputPath, S("README.md")),
            [ type |-> "categoryReadme",
              title |-> config.name,
              overview |-> config.description,
              keyTopics |-> Join(MapSeq(Bullet, config.keyTopics), S("\n")),
              included |-> [i \in 1..Len(config.examples) |-> IncludedExample(table, config.examples[i])],
              contracts |-> contractFiles,
              tests |-> testFiles,
              generated |-> t ])

\* createMetadata(outputPath, categoryName, config) of the category script
categoryCreateMetadata(r, outputPath, categoryName, config, t) ==
  WriteFile(r, Append(outputPath, S(".fhevm-category.json")),
            Json(<< [k |-> "category", v |-> JStr(categoryName)],
                    [k |-> "name", v |-> JStr(config.name)],
                    [k |-> "description", v |-> JStr(config.description)],
                    [k |-> "examples", v |-> JList(config.examples)],
                    [k |-> "keyTopics", v |-> JList(config.keyTopics)],
                    [k |-> "generatedAt", v |-> [t |-> "date", at |-> t]] >>))

\* generateDeploymentScript(outputPath, contractFiles)
generateDeploymentScript(r, outputPath, contractFiles) ==
  LET contractNames == MapSeq(RemoveFirstSol, contractFiles)
  IN WriteFile(r, outputPath \o <<S("scripts"), S("deploy.ts")>>,
               [ type |-> "deployScript",
                 header |-> Join(contractNames, S(", ")),
                 steps |-> [i \in 1..Len(contractNames) |->
                              [ factory |-> contractNames[i],
                                recordedAs |-> contractNames[i] ]] ])

\* createCategory(categoryName, outputPath), the three Date reads as ts
createCategory(f, catTable, table, ts, categoryName, outputPath) ==
  LET config == Lookup(catTable, categoryName)
  IN IF config.kind = "undefined"
     THEN Result(Say(Say(Run(f), "error", S("Category not found: ") \o categoryName),
                     "log", S("Available categories: ") \o Join(Keys(catTable), S(", "))),
                 "exit1")
     ELSE IF config.kind = "inherited"
     THEN Result(Run(f), "throw")
     ELSE
       LET r0 == Say(Run(f), "log", S("Creating FHEVM Category"))
           r1 == IF ~Exists(r0.fs, outputPath)
                 THEN Say(MkdirP(r0, outputPath), "log", S("Created directory"))
                 ELSE r0
           r2 == Say(CopyDirectory(r1, TemplatePath, outputPath, CategorySkip),
                     "log", S("Copied base template"))
           contractsDir == Append(outputPath, S("contracts"))
           testDir == Append(outputPath, S("test"))
           r3 == IF r2.ok /\ ~Exists(r2.fs, contractsDir) THEN MkdirP(r2, contractsDir) ELSE r2
           r4 == IF r3.ok /\ ~Exists(r3.fs, testDir) THEN MkdirP(r3, testDir) ELSE r3
           st == CopyExamples([r |-> r4, contractFiles |-> <<>>, testFiles |-> <<>>],
                              table, config.val.examples, 1, outputPath)
           r5 == Say(categoryUpdatePackageJson(st.r, outputPath, categoryName, config.val, ts[1]),
                     "log", S("Updated package.json"))
           r6 == Say(categoryGenerateReadme(r5, table, outputPath, categoryName, config.val,
                                            st.contractFiles, st.testFiles, ts[2]),
                     "log", S("Generated README.md"))
           r7 == Say(categoryCreateMetadata(r6, outputPath, categoryName, config.val, ts[3]),
                     "log", S("Created category metadata"))
           r8 == Say(generateDeploymentScript(r7, outputPath, st.contractFiles),
                     "log", S("Category created successfully!"))
       IN IF r8.ok THEN Result(r8, "ok")
          ELSE Result([r8 EXCEPT !.log = Append(@, [ev |-> "error", arg |-> S("Error creating category")])],
                      "exit1")

-----------------------------------------------------------------------------
(* scripts/generate-docs.ts *)

\* "" as a path: fs.existsSync("") is false
EmptyPath == << <<>> >>

DocPath(category, exampleName) == <<S("docs"), category, exampleName \o <<".md">> >>

\* The table of scripts/generate-docs.ts as written.
DOCS_CONFIG ==
  << [key |-> ConfidentialSupplierManagement,
      val |-> [ contractPath |-> <<S("contracts"), <<"SupplierManagement", ".sol">> >>,
                testPath |-> <<S("test"), <<"SupplierManagement", ".ts">> >>,
                outputPath |-> DocPath(S("enterprise"), ConfidentialSupplierManagement),
                category |-> S("enterprise"),
                complexity |-> S("advanced"),
                estimatedTime |-> S("30-45 minutes") ]],
     [key |-> FheCounter,
      val |-> [ contractPath |-> <<S("contracts"), <<"EncryptedContract", ".sol">> >>,
                testPath |-> <<S("test"), <<"EncryptedContract", ".ts">> >>,
                outputPath |-> DocPath(S("basic"), FheCounter),
                category |-> S("basic"),
                complexity |-> S("beginner"),
                estimatedTime |-> S("15-20 minutes") ]] >>

RECURSIVE SplitLines(_)
\* content.split("\n")
SplitLines(body) ==
  IF \E i \in 1..Len(body) : body[i] = "\n"
  THEN LET i == CHOOSE k \in 1..Len(body) : body[k] = "\n" /\ \A j \in 1..(k-1) : body[j] # "\n"
       IN <<SubSeq(body, 1, i-1)>> \o SplitLines(SubSeq(body, i+1, Len(body)))
  ELSE <<body>>

\* line.includes(marker)
Includes(line, marker) == \E i \in 1..Len(line) : line[i] = marker

RECURSIVE ScanLinesLeavingOutClosingLine(_, _, _)
\* a scanner that ends a block before the line with the close marker
ScanLinesLeavingOutClosingLine(lines, i, acc) ==
  IF i > Len(lines) THEN acc
  ELSE LET line == lines[i]
           opened == acc.inComment \/ Includes(line, "/**")
       IN IF opened /\ ~Includes(line, "*/")
          THEN ScanLinesLeavingOutClosingLine(lines, i + 1,
                         [ comments |-> acc.comments \o line \o <<"\n">>,
                           code |-> acc.code,
                           inComment |-> TRUE ])
          ELSE ScanLinesLeavingOutClosingLine(lines, i + 1,
                         [ comments |-> acc.comments,
                           code |-> acc.code \o line \o <<"\n">>,
                           inComment |-> FALSE ])

RECURSIVE ScanLinesCopyingMarkerLines(_, _, _)
\* a scanner that also keeps the lines with an open marker as code
ScanLinesCopyingMarkerLines(lines, i, acc) ==
  IF i > Len(lines) THEN acc
  ELSE LET line == lines[i]
           opened == acc.inComment \/ Includes(line, "/**")
       IN IF opened
          THEN ScanLinesCopyingMarkerLines(lines, i + 1,
                         [ comments |-> acc.comments \o line \o <<"\n">>,
                           code |-> IF Includes(line, "/**")
                                    THEN acc.code \o line \o <<"\n">> ELSE acc.code,
                           inComment |-> ~Includes(line, "*/") ])
          ELSE ScanLinesCopyingMarkerLines(lines, i + 1,
                         [ comments |-> acc.comments,
                           code |-> acc.code \o line \o <<"\n">>,
                           inComment |-> FALSE ])

RECURSIVE ScanLines(_, _, _)
\* the loop of extractContractInfo; acc is [comments, code, inComment]
ScanLines(lines, i, acc) ==
  IF i > Len(lines) THEN acc
  ELSE LET line == lines[i]
           opened == acc.inComment \/ Includes(line, "/**")
       IN IF opened
          THEN ScanLines(lines, i + 1,
                         [ comments |-> acc.comments \o line \o <<"\n">>,
                           code |-> acc.code,
                           inComment |-> ~Includes(line, "*/") ])
          ELSE ScanLines(lines, i + 1,
                         [ comments |-> acc.comments,
                           code |-> acc.code \o line \o <<"\n">>,
                           inComment |-> FALSE ])

\* extractContractInfo(filePath)
extractContractInfo(f, filePath) ==
  IF ~Exists(f, filePath) \/ filePath = EmptyPath THEN [comments |-> <<>>, code |-> <<>>]
  ELSE LET acc == ScanLines(SplitLines(f[filePath].content.body), 1,
                            [comments |-> <<>>, code |-> <<>>, inComment |-> FALSE])
       IN [comments |-> acc.comments, code |-> acc.code]

\* the single quote, the double quote and the backtick
Quotes == {"'", "\"", "backtick"}

\* the end of a match of testRegex that starts at p, or 0: the letters i, t,
\* an opening parenthesis, a quote of any of the three kinds, one or more
\* characters that are no quote, and a quote of any kind
MatchEnd(text, p) ==
  IF /\ p + 5 <= Len(text)
     /\ text[p] = "i" /\ text[p+1] = "t" /\ text[p+2] = "("
     /\ text[p+3] \in Quotes
     /\ text[p+4] \notin Quotes
     /\ \E e \in (p+5)..Len(text) : text[e] \in Quotes
  THEN CHOOSE e \in (p+5)..Len(text) :
         text[e] \in Quotes /\ \A j \in (p+4)..(e-1) : text[j] \notin Quotes
  ELSE 0

RECURSIVE ExecAll(_, _)
\* the loop "while ((match = testRegex.exec(content)) !== null)" with
\* lastIndex at from: the captured groups, in order
ExecAll(text, from) ==
  IF \E p \in from..Len(text) : MatchEnd(text, p) # 0
  THEN LET p == CHOOSE q \in from..Len(text) :
                  MatchEnd(text, q) # 0 /\ \A j \in from..(q-1) : MatchEnd(text, j) = 0
           e == MatchEnd(text, p)
       IN <<SubSeq(text, p + 4, e - 1)>> \o ExecAll(text, e + 1)
  ELSE <<>>

\* testCases of extractTestInfo on the content of the file
TestCases(content) == ExecAll(content, 1)

\* extractTestInfo(filePath)
extractTestInfo(f, filePath) ==
  IF ~Exists(f, filePath) \/ filePath = EmptyPath THEN [testCases |-> <<>>, coverage |-> <<>>]
  ELSE LET testCases == TestCases(f[filePath].content.body)
       IN [testCases |-> testCases, coverage |-> S("Total test cases: ") \o <<Len(testCases)>>]

\* docsConfig?.field || fallback
DocsField(docsConfig, field, fallback) ==
  IF docsConfig.kind = "entry" THEN docsConfig.val[field] ELSE fallback

\* the page generateDocumentation renders, Date read as t
Markdown(exampleName, exampleConfig, docsConfig, testInfo, t) ==
  [ type |-> "doc",
    title |-> exampleConfig.name,
    category |-> exampleConfig.category,
    complexity |-> DocsField(docsConfig, "complexity", S("intermediate")),
    estimatedTime |-> DocsField(docsConfig, "estimatedTime", S("20-30 minutes")),
    overview |-> exampleConfig.documentation.overview,
    keyFeatures |-> Join(MapSeq(Bullet, exampleConfig.documentation.keyFeatures), S("\n")),
    learningOutcomes |-> Join(MapSeq(Bullet, exampleConfig.documentation.learningOutcomes), S("\n")),
    contractSource |-> IF docsConfig.kind = "entry"
                       THEN Join(docsConfig.val.contractPath, S("/"))
                       ELSE S("contracts/[Example].sol"),
    totalTests |-> Len(testInfo.testCases),
    tests |-> testInfo.testCases,
    lastUpdated |-> t,
    example |-> exampleName ]

\* generateDocumentation(exampleName, outputDir), Date read as t
generateDocumentation(f, table, t, exampleName, outputDir) ==
  LET exampleConfig == Lookup(table, exampleName)
      docsConfig == Lookup(DOCS_CONFIG, exampleName)
  IN IF exampleConfig.kind = "undefined"
     THEN Result(Say(Run(f), "error", S("Example not found: ") \o exampleName), "exit1")
     ELSE
       LET r0 == IF docsConfig.kind = "undefined"
                 THEN Say(Run(f), "warn", S("Documentation config not found for: ") \o exampleName)
                 ELSE Run(f)
           contractInfo == extractContractInfo(f, DocsField(docsConfig, "contractPath", EmptyPath))
           testInfo == extractTestInfo(f, DocsField(docsConfig, "testPath", EmptyPath))
           outputPath == DocsField(docsConfig, "outputPath",
                                   <<S("docs"), exampleName \o <<".md">> >>)
           outputDirPath == Parent(outputPath)
           r1 == IF ~Exists(r0.fs, outputDirPath) THEN MkdirP(r0, outputDirPath) ELSE r0
           r2 == IF exampleConfig.kind = "inherited" THEN Throw(r1)
                 ELSE WriteFile(r1, outputPath,
                                Markdown(exampleName, exampleConfig.val, docsConfig, testInfo, t))
           r3 == Say(r2, "log", S("Documentation generated: ") \o Join(outputPath, S("/")))
       IN Result(r3, IF r3.ok THEN "ok" ELSE "throw")

SummaryLinks(table, category) ==
  LET idx == {i \in 1..Len(table) : table[i].val.category = category}
      Nth(n) == CHOOSE i \in idx : Cardinality({j \in idx : j < i}) = n - 1
  IN [n \in 1..Cardinality(idx) |->
        [ text |-> table[Nth(n)].val.name,
          target |-> <<category, table[Nth(n)].key \o <<".md">> >> ]]

\* generateSummary(outputDir)
generateSummary(r, table, outputDir) ==
  LET summaryPath == outputDir \o <<S("docs"), S("SUMMARY.md")>>
      summaryDir == Parent(summaryPath)
      r1 == IF r.ok /\ ~Exists(r.fs, summaryDir) THEN MkdirP(r, summaryDir) ELSE r
      r2 == WriteFile(r1, summaryPath,
                      [ type |-> "summary",
                        sections |-> << [ heading |-> S("Enterprise Applications"),
                                          links |-> SummaryLinks(table, S("enterprise")) ],
                                        [ heading |-> S("Basic Examples"),
                                          links |-> SummaryLinks(table, S("basic")) ] >> ])
  IN Say(r2, "log", S("SUMMARY.md generated"))

RECURSIVE AllDocsStoppingAtFailure(_, _, _, _, _)
\* a loop over the examples that a failure ends
AllDocsStoppingAtFailure(r, table, ts, i, outputDir) ==
  IF i > Len(table) THEN r
  ELSE LET res == generateDocumentation(r.fs, table, ts[i], table[i].key, outputDir)
       IN IF res.status = "ok"
          THEN AllDocsStoppingAtFailure([fs |-> res.fs, ok |-> TRUE, log |-> r.log \o res.log],
                                        table, ts, i + 1, outputDir)
          ELSE [ fs |-> res.fs, ok |-> TRUE,
                 log |-> r.log \o res.log \o
                         <<[ev |-> "warn", arg |-> S("Failed to generate docs for ") \o table[i].key]>> ]

RECURSIVE AllDocs(_, _, _, _, _)
\* the loop of generateAllDocumentation from index i on; ts[i] is the Date
\* read of the i-th call
AllDocs(r, table, ts, i, outputDir) ==
  IF i > Len(table) THEN r
  ELSE LET res == generateDocumentation(r.fs, table, ts[i], table[i].key, outputDir)
           r1 == [ fs |-> res.fs, ok |-> TRUE,
                   log |-> r.log \o res.log \o
                           (IF res.status = "ok" THEN <<>>
                            ELSE <<[ev |-> "warn", arg |-> S("Failed to generate docs for ") \o table[i].key]>>) ]
       IN AllDocs(r1, table, ts, i + 1, outputDir)

\* generateAllDocumentation(outputDir)
generateAllDocumentation(f, table, ts, outputDir) ==
  LET r == generateSummary(AllDocs(Run(f), table, ts, 1, outputDir), table, outputDir)
  IN Result(r, IF r.ok THEN "ok" ELSE "throw")

-----------------------------------------------------------------------------
(* The three commands.  args is process.argv.slice(2): a sequence of at    *)
(* most two strings, the second one a path.                                *)

NoArgs == <<>>
Arg0(args) == args[1]
HasArg1(args) == Len(args) >= 2

Catalog(r, table) ==
  [r EXCEPT !.log = @ \o [i \in 1..Len(table) |-> [ev |-> "catalog", arg |-> table[i].key]]]

\* main() of create-fhevm-example.ts
exampleMain(f, table, ts, args) ==
  IF Len(args) = 0
  THEN Result(Catalog(Say(Run(f), "log",
                          S("Usage: ts-node scripts/create-fhevm-example.ts <example-name> [output-path]")),
                      table),
              "exit0")
  ELSE LET exampleName == Arg0(args)
           outputPath == IF HasArg1(args) THEN args[2]
                         ELSE << exampleName \o <<"-", "example">> >>
       IN createExample(f, table, ts, exampleName, outputPath)

\* What "import { EXAMPLES_MAP } from ./create-fhevm-example" runs: the
\* module ends with a call of its main(), which reads the arguments of the
\* importing command; createExample has no await, so it runs to its end,
\* process.exit included, before the importing module goes on.
ImportCreateExample(f, table, ts, args) == exampleMain(f, table, ts, args)

Exited(res) == res.status \in {"exit0", "exit1"}

\* the command "ts-node scripts/create-fhevm-example.ts args"
exampleCommand(f, table, ts, args) == exampleMain(f, table, ts, args)

\* main().catch(...): an exception that leaves main is logged and the
\* process exits with 1
CatchFatal(res) ==
  IF res.status = "throw"
  THEN [res EXCEPT !.status = "exit1",
                   !.log = Append(@, [ev |-> "error", arg |-> S("Fatal error:")])]
  ELSE res

\* main() of create-fhevm-category.ts
categoryMain(f, catTable, table, ts, args) ==
  IF Len(args) = 0
  THEN Result(Catalog(Say(Run(f), "log",
                          S("Usage: ts-node scripts/create-fhevm-category.ts <category> [output-path]")),
                      catTable),
              "exit0")
  ELSE LET categoryName == Arg0(args)
           outputPath == IF HasArg1(args) THEN args[2]
                         ELSE << categoryName \o <<"-", "examples">> >>
       IN CatchFatal(createCategory(f, catTable, table, ts, categoryName, outputPath))

\* the command "ts-node scripts/create-fhevm-category.ts args", imp being
\* the result of what its import ran
categoryCommand(imp, catTable, table, ts, args) ==
  IF Exited(imp) THEN imp
  ELSE LET res == categoryMain(imp.fs, catTable, table, SubSeq(ts, 4, 6), args)
       IN [res EXCEPT !.log = imp.log \o @]

AllFlag == <<"--all">>

\* main() of generate-docs.ts
docsMain(f, table, ts, args) ==
  IF Len(args) = 0
  THEN Result(Catalog(Say(Run(f), "log",
                          S("Usage: ts-node scripts/generate-docs.ts <example-name|--all> [output-dir]")),
                      table),
              "exit0")
  ELSE LET outputDir == IF HasArg1(args) THEN args[2] ELSE <<S("docs")>>
       IN CatchFatal(IF Arg0(args) = AllFlag
                     THEN generateAllDocumentation(f, table, ts, outputDir)
                     ELSE generateDocumentation(f, table, ts[1], Arg0(args), outputDir))

\* the command "ts-node scripts/generate-docs.ts args", imp being the
\* result of what its import ran
docsCommand(imp, table, ts, args) ==
  IF Exited(imp) THEN imp
  ELSE LET res == docsMain(imp.fs, table, SubSeq(ts, 4, Len(ts)), args)
       IN [res EXCEPT !.log = imp.log \o @]

-----------------------------------------------------------------------------
(* The repository on disk *)

\* a test declaration it("title", ...) and one with single quotes
ItDq(title) == <<"i", "t", "(", "\"">> \o title \o <<"\"", ",", "f", ")", "\n">>
ItSq(title) == <<"i", "t", "(", "'">> \o title \o <<"'", ",", "f", ")", "\n">>

FHECounterTest == ItDq(<<"a">>) \o <<"e", "m", "i", "t", "(", "c", ",", "\"", "E", "\"", ")", "\n">> \o ItDq(<<"b">>)
SupplierManagementTest == ItDq(<<"r">>)
MyNewExampleTest == ItSq(<<"m">>) \o ItDq(<<"n">>) \o ItDq(<<"m">>)
EncryptedContractTest == ItDq(<<"s">>) \o ItDq(<<"e">>)

TemplateManifest ==
  Json(<< [k |-> "name", v |-> JStr(S("fhevm-hardhat-template"))],
          [k |-> "version", v |-> JStr(S("1.0.0"))],
          [k |-> "description", v |-> JStr(S("Hardhat template for FHEVM development"))],
          [k |-> "scripts", v |-> JObj([compile |-> S("hardhat compile"), test |-> S("hardhat test")])] >>)

Dir(p) == p :> DirNode
File(p, c) == p :> FileNode(c)

\* base-template/ as the manifest of files describes it, with the
\* directories an npm install and a compile leave in it and the .git file
\* a checkout as a submodule gives it
FullTemplate ==
  Dir(TemplatePath)
  @@ File(TemplatePath \o <<S("package.json")>>, TemplateManifest)
  @@ File(TemplatePath \o <<S("README.md")>>, Text(S("template readme")))
  @@ File(TemplatePath \o <<S("hardhat.config.ts")>>, Text(S("hardhat config")))
  @@ Dir(TemplatePath \o <<S("contracts")>>)
  @@ File(TemplatePath \o <<S("contracts"), <<"EncryptedContract", ".sol">> >>, Text(S("contract EncryptedContract")))
  @@ Dir(TemplatePath \o <<S("test")>>)
  @@ File(TemplatePath \o <<S("test"), <<"EncryptedContract", ".ts">> >>, Text(EncryptedContractTest))
  @@ Dir(TemplatePath \o <<S("scripts")>>)
  @@ File(TemplatePath \o <<S("scripts"), S("deploy.ts")>>, Text(S("template deploy script")))
  @@ Dir(TemplatePath \o <<S("node_modules")>>)
  @@ File(TemplatePath \o <<S("node_modules"), S("dep.js")>>, Text(S("dependency")))
  @@ Dir(TemplatePath \o <<S("scripts"), S("cache")>>)
  @@ File(TemplatePath \o <<S("scripts"), S("cache"), S("c.json")>>, Text(S("cached")))
  @@ File(TemplatePath \o <<S(".git")>>, Text(S("gitdir: ../.git/modules/base-template")))

\* the payload files of the repository: contracts/ and test/
Payloads ==
  Dir(ContractsPath)
  @@ File(Append(ContractsPath, SupplierManagementConfig.contractFile), Text(S("contract SupplierManagement")))
  @@ File(Append(ContractsPath, FheCounterConfig.contractFile), Text(S("contract FHECounter")))
  @@ File(Append(ContractsPath, MyNewExampleConfig.contractFile), Text(S("contract MyNewExample")))
  @@ Dir(TestPath)
  @@ File(Append(TestPath, SupplierManagementConfig.testFile), Text(SupplierManagementTest))
  @@ File(Append(TestPath, FheCounterConfig.testFile), Text(FHECounterTest))
  @@ File(Append(TestPath, MyNewExampleConfig.testFile), Text(MyNewExampleTest))

Without(f, gone) == [p \in {q \in DOMAIN f : \A g \in gone : ~IsPrefix(g, q)} |-> f[p]]

\* what may be absent from the template, and which payload files may be absent
TemplateGaps ==
  { {},
    {TemplatePath \o <<S("test")>>},
    {TemplatePath \o <<S("package.json")>>} }

PayloadGaps ==
  { {},
    {Append(ContractsPath, FheCounterConfig.contractFile)},
    {Append(TestPath, FheCounterConfig.testFile)} }

Registries ==
  { [examples |-> EXAMPLES_MAP, categories |-> CATEGORIES],
    [examples |-> ExtendedExamplesMap, categories |-> ExtendedCategories] }

-----------------------------------------------------------------------------
(* Calls and commands *)

NoCall == [op |-> "none", id |-> <<>>, dest |-> <<>>, status |-> "ok"]

Brief(l) == [op |-> l.op, id |-> l.id, dest |-> l.dest, status |-> l.status]

\* the state after a call op(id, dest) that gave result res
Done(op, id, dest, res) ==
  /\ fs' = res.fs
  /\ last' = [op |-> op, id |-> id, dest |-> dest, status |-> res.status,
              log |-> res.log, pre |-> fs, before |-> Brief(last)]
  /\ steps' = steps + 1
  /\ UNCHANGED <<input, output, chain>>

\* the values successive new Date() reads can give
Clock(n) == {ts \in [1..n -> now..MaxClock] : \A i \in 1..(n-1) : ts[i] <= ts[i+1]}

ExampleArgs == {FheCounter, MyNewExample, Ghost, Constructor}
OutputPaths == {<<S("out"), S("b")>>}

Init ==
  /\ \E reg \in Registries :
       /\ examplesMap = reg.examples
       /\ categories = reg.categories
  /\ \E tg \in TemplateGaps, pg \in PayloadGaps :
       fs = Without(FullTemplate @@ Payloads, tg \cup pg)
  /\ now = 0
  /\ last = [op |-> "none", id |-> <<>>, dest |-> <<>>, status |-> "ok",
             log |-> <<>>, pre |-> fs, before |-> NoCall]
  /\ steps = 0
  /\ input = <<>>
  /\ output = <<>>
  /\ chain = NoContract

\* a call of the exported createExample(exampleName, outputPath)
CallCreateExample ==
  /\ steps < MaxSteps
  /\ \E id \in ExampleArgs, d \in OutputPaths, ts \in Clock(3) :
       /\ Done("createExample", id, d, createExample(fs, examplesMap, ts, id, d))
       /\ now' = ts[3]
  /\ UNCHANGED <<examplesMap, categories>>

CategoryArgs == {S("basic"), S("advanced"), Ghost, Constructor}

\* a call of the exported createCategory(categoryName, outputPath)
CallCreateCategory ==
  /\ steps < MaxSteps
  /\ \E cat \in CategoryArgs, d \in OutputPaths, ts \in Clock(3) :
       /\ Done("createCategory", cat, d, createCategory(fs, categories, examplesMap, ts, cat, d))
       /\ now' = ts[3]
  /\ UNCHANGED <<examplesMap, categories>>

OutputDirs == {<<S("docs")>>, <<S("my-docs")>>}

\* a call of the exported generateDocumentation(exampleName, outputDir)
CallGenerateDocumentation ==
  /\ steps < MaxSteps
  /\ \E id \in ExampleArgs, o \in OutputDirs, ts \in Clock(1) :
       /\ Done("generateDocumentation", id, o, generateDocumentation(fs, examplesMap, ts[1], id, o))
       /\ now' = ts[1]
  /\ UNCHANGED <<examplesMap, categories>>

\* a call of the exported generateAllDocumentation(outputDir)
CallGenerateAllDocumentation ==
  /\ steps < MaxSteps
  /\ \E o \in OutputDirs, ts \in Clock(Len(examplesMap)) :
       /\ Done("generateAllDocumentation", <<>>, o, generateAllDocumentation(fs, examplesMap, ts, o))
       /\ now' = ts[Len(examplesMap)]
  /\ UNCHANGED <<examplesMap, categories>>

Args(names) ==
  {NoArgs} \cup {<<n>> : n \in names} \cup {<<n, d>> : n \in names, d \in {<<S("out"), S("b")>>}}

\* the state after a command run with args that gave result res
Ran(cmd, args, res) ==
  Done(cmd, IF Len(args) = 0 THEN <<>> ELSE args[1],
       IF Len(args) < 2 THEN <<>> ELSE args[2], res)

\* ts-node scripts/create-fhevm-example.ts
RunCreateExample ==
  /\ steps < MaxSteps
  /\ \E args \in Args({FheCounter, Ghost}), ts \in Clock(3) :
       LET res == exampleCommand(fs, examplesMap, ts, args)
       IN /\ Ran("create-fhevm-example", args, res)
          /\ now' = ts[3]
  /\ UNCHANGED <<examplesMap, categories>>

\* ts-node scripts/create-fhevm-category.ts
RunCreateCategory ==
  /\ steps < MaxSteps
  /\ \E args \in Args({S("basic"), Ghost}), ts \in Clock(6) :
       \E imp \in {ImportCreateExample(fs, examplesMap, SubSeq(ts, 1, 3), args)} :
         /\ Ran("create-fhevm-category", args,
                categoryCommand(imp, categories, examplesMap, ts, args))
         /\ now' = ts[6]
  /\ UNCHANGED <<examplesMap, categories>>

\* ts-node scripts/generate-docs.ts
RunGenerateDocs ==
  /\ steps < MaxSteps
  /\ \E args \in Args({FheCounter, Ghost, AllFlag}), ts \in Clock(3 + Len(examplesMap)) :
       \E imp \in {ImportCreateExample(fs, examplesMap, SubSeq(ts, 1, 3), args)} :
         /\ Ran("generate-docs", args, docsCommand(imp, examplesMap, ts, args))
         /\ now' = ts[Len(ts)]
  /\ UNCHANGED <<examplesMap, categories>>

Next ==
  \/ RunCreateExample
  \/ RunCreateCategory
  \/ RunGenerateDocs
  \/ CallCreateExample
  \/ CallCreateCategory
  \/ CallGenerateDocumentation
  \/ CallGenerateAllDocumentation

Spec == Init /\ [][Next]_vars

\* the materializer alone
NextExample == CallCreateExample
SpecExample == Init /\ [][NextExample]_vars

\* the materializer and the bundler on one destination
NextCategory == CallCreateExample \/ CallCreateCategory
SpecCategory == Init /\ [][NextCategory]_vars

\* the documentation generator alone
NextDocs == CallGenerateDocumentation \/ CallGenerateAllDocumentation
SpecDocs == Init /\ [][NextDocs]_vars

\* the exported functions
NextCalls ==
  \/ CallCreateExample
  \/ CallCreateCategory
  \/ CallGenerateDocumentation
  \/ CallGenerateAllDocumentation
SpecCalls == Init /\ [][NextCalls]_vars

\* the commands
NextCommands == RunCreateExample \/ RunCreateCategory \/ RunGenerateDocs
SpecCommands == Init /\ [][NextCommands]_vars

-----------------------------------------------------------------------------
(* The test-title extractor as a function of the text of a test file *)

MaxChunks == 3

\* pieces of test files: declarations with each kind of quote, a call whose
\* name ends in "it", a title holding a quote of another kind, a call of it
\* whose first argument is no literal, a declaration with an empty title,
\* and other code
Chunks ==
  { ItDq(<<"a">>),
    ItSq(<<"b">>),
    <<"w", "a", "i", "t", "(", "\"", "c", "\"", ")", "\n">>,
    ItDq(<<"d", "'", "e">>),
    <<"i", "t", "(", "f", ")", "\n">>,
    ItDq(<<>>),
    <<"x", "=", "1", "\n">> }

RECURSIVE Concat(_)
Concat(chunks) == IF Len(chunks) = 0 THEN <<>> ELSE chunks[1] \o Concat(Tail(chunks))

Texts == {Concat(cs) : cs \in UNION {[1..n -> Chunks] : n \in 0..MaxChunks}}

InitExtract ==
  /\ examplesMap = EXAMPLES_MAP
  /\ categories = CATEGORIES
  /\ fs = FullTemplate @@ Payloads
  /\ now = 0
  /\ last = [op |-> "none", id |-> <<>>, dest |-> <<>>, status |-> "ok",
             log |-> <<>>, pre |-> fs, before |-> NoCall]
  /\ steps = 0
  /\ input \in Texts
  /\ output = <<>>
  /\ chain = NoContract

\* extractTestInfo reads the test file and scans it
ExtractTestInfo ==
  /\ last.op = "none"
  /\ output' = TestCases(input)
  /\ last' = [last EXCEPT !.op = "extractTestInfo"]
  /\ UNCHANGED <<examplesMap, categories, fs, now, steps, input, chain>>

SpecExtract == InitExtract /\ [][ExtractTestInfo]_vars

-----------------------------------------------------------------------------
(* Claims *)

Registered(id) == \E i \in 1..Len(examplesMap) : examplesMap[i].key = id
EntryOf(id) == examplesMap[CHOOSE i \in 1..Len(examplesMap) : examplesMap[i].key = id].val
ManifestOf(f, d) == f[Append(d, S("package.json"))].content.fields

\* name is id with each underscore replaced by a hyphen
Hyphenated(id, name) ==
  /\ Len(name) = Len(id)
  /\ \A i \in 1..Len(id) : name[i] = IF id[i] = "_" THEN "-" ELSE id[i]

\* C1: after createExample(id, d) completes for a registered id, d/package.json
\* has name = id with every underscore replaced by a hyphen, description =
\* the entry's description and keywords = the entry's keyword list.
C1_ManifestMatchesEntry ==
  (last.op = "createExample" /\ last.status = "ok" /\ Registered(last.id)) =>
    LET m == ManifestOf(fs, last.dest)
        e == EntryOf(last.id)
    IN /\ HasKey(m, "name") /\ Get(m, "name").t = "string"
       /\ Hyphenated(last.id, Get(m, "name").s)
       /\ HasKey(m, "description") /\ Get(m, "description") = JStr(e.description)
       /\ HasKey(m, "keywords") /\ Get(m, "keywords") = JList(e.keywords)

\* C1 witness: createExample completed for an ID that has two underscores
C1_Witness ==
  /\ last.op = "createExample" /\ last.status = "ok"
  /\ last.id = MyNewExample
  /\ Cardinality({i \in 1..Len(last.id) : last.id[i] = "_"}) = 2


\* the last call came right after the same call with the same arguments, and
\* both completed
SameCallTwice(op) ==
  /\ last.op = op /\ last.status = "ok"
  /\ last.before = [op |-> op, id |-> last.id, dest |-> last.dest, status |-> "ok"]

UntimedField(fld) ==
  IF fld.k = "generatedAt" THEN [k |-> fld.k, v |-> [t |-> "date", at |-> 0]]
  ELSE IF fld.k = "fhevmExample" THEN [k |-> fld.k, v |-> JObj([fld.v.o EXCEPT !.generatedAt = 0])]
  ELSE fld

\* a node with its generation timestamps blanked
Untimed(node) ==
  IF node.kind = "dir" THEN node
  ELSE IF node.content.type = "json"
       THEN FileNode(Json([i \in 1..Len(node.content.fields) |-> UntimedField(node.content.fields[i])]))
  ELSE IF node.content.type = "readme"
       THEN FileNode([node.content EXCEPT !.generated = 0])
  ELSE node

Stamped(d) == {Append(d, S("package.json")), Append(d, S("README.md")), Append(d, S(".fhevm-example.json"))}

\* C2 as stated: a second createExample(id, d) right after the first leaves
\* every file under d with the content it had after the first.
C2_SecondRunChangesNothing ==
  SameCallTwice("createExample") =>
    /\ Under(fs, last.dest) = Under(last.pre, last.dest)
    /\ \A p \in Under(fs, last.dest) : fs[p] = last.pre[p]

\* C2 amended: a second createExample(id, d) right after the first leaves
\* the same files under d, each with the content it had after the first run
\* except for the generation timestamps of package.json, README.md and
\* .fhevm-example.json.
C2_IdempotentButTimestamps ==
  SameCallTwice("createExample") =>
    /\ Under(fs, last.dest) = Under(last.pre, last.dest)
    /\ \A p \in Under(fs, last.dest) : Untimed(fs[p]) = Untimed(last.pre[p])
    /\ \A p \in Under(fs, last.dest) \ Stamped(last.dest) : fs[p] = last.pre[p]

\* C2 witness: the second run happened at a later time than the first
C2_Witness ==
  /\ SameCallTwice("createExample")
  /\ fs[Append(last.dest, S(".fhevm-example.json"))]
       # last.pre[Append(last.dest, S(".fhevm-example.json"))]

RegisteredCategory(id) == \E i \in 1..Len(categories) : categories[i].key = id
CategoryOf(id) == categories[CHOOSE i \in 1..Len(categories) : categories[i].key = id].val
Range(list) == {list[i] : i \in 1..Len(list)}

ContractsIn(f, d) ==
  IF IsDir(f, Append(d, S("contracts"))) THEN Children(f, Append(d, S("contracts"))) ELSE {}

C4_DocsByteIdentical ==
  (SameCallTwice("generateDocumentation") /\ Registered(last.id)) => fs = last.pre

DocPages(f, id) ==
  {p \in DOMAIN f : IsFile(f, p) /\ f[p].content.type = "doc" /\ f[p].content.example = id}

\* C5: the page generateDocumentation writes for a registered example
\* reports the titles the extractor finds in the registered testFile of the
\* example.
C5_TestCountMatchesTestFile ==
  (last.op = "generateDocumentation" /\ last.status = "ok" /\ Registered(last.id)) =>
    LET testFile == Append(TestPath, EntryOf(last.id).testFile)
        expected == IF IsFile(last.pre, testFile)
                    THEN TestCases(last.pre[testFile].content.body) ELSE <<>>
    IN \A p \in DocPages(fs, last.id) :
         (p \notin DOMAIN last.pre \/ fs[p] # last.pre[p]) =>
           /\ fs[p].content.totalTests = Len(expected)
           /\ fs[p].content.tests = expected

\* C6: the summary generateAllDocumentation leaves lists every registered
\* example exactly once, under its own category.
C6_SummaryListsEveryExample ==
  (last.op = "generateAllDocumentation" /\ last.status = "ok") =>
    LET summary == fs[last.dest \o <<S("docs"), S("SUMMARY.md")>>].content
    IN \A i \in 1..Len(examplesMap) :
         Cardinality({sl \in {<<sec, l>> : sec \in 1..Len(summary.sections), l \in 1..Len(examplesMap)} :
                        /\ sl[2] <= Len(summary.sections[sl[1]].links)
                        /\ summary.sections[sl[1]].links[sl[2]].target =
                             <<examplesMap[i].val.category, examplesMap[i].key \o <<".md">> >>}) = 1

\* C8: a call with an ID that is not in the registry ends in a fatal error
\* and leaves the filesystem as it was.
C8_NotFoundLeavesFilesystem ==
  /\ (last.op \in {"createExample", "generateDocumentation"} /\ ~Registered(last.id)) =>
       (last.status # "ok" /\ fs = last.pre)
  /\ (last.op = "createCategory" /\ ~RegisteredCategory(last.id)) =>
       (last.status # "ok" /\ fs = last.pre)

Changed(p) == p \notin DOMAIN last.pre \/ fs[p] # last.pre[p]

\* C9: the documentation command leaves materialized project trees alone
\* and does not fail because of the materializer; the materializer and
\* bundler commands leave documentation artifacts alone.
C9_MaterializeAndDocsIndependent ==
  /\ last.op = "generate-docs" =>
       /\ \A p \in DOMAIN fs :
            (IsFile(fs, p) /\ Changed(p)) => fs[p].content.type \in {"doc", "summary"}
       /\ last.id = AllFlag => last.status = "ok"
  /\ last.op \in {"create-fhevm-example", "create-fhevm-category"} =>
       \A p \in DOMAIN fs :
         (IsFile(fs, p) /\ Changed(p)) => fs[p].content.type \notin {"doc", "summary"}

\* C10: generateDocumentation(id, outputRoot) writes the page of a registered
\* example at outputRoot/<category>/<id>.md.
C10_PageUnderOutputRoot ==
  (last.op = "generateDocumentation" /\ last.status = "ok" /\ Registered(last.id)) =>
    LET page == last.dest \o <<EntryOf(last.id).category, last.id \o <<".md">> >>
    IN /\ IsFile(fs, page)
       /\ fs[page].content.type = "doc"
       /\ fs[page].content.example = last.id
       /\ \A p \in DocPages(fs, last.id) : Changed(p) => p = page

\* characters that cannot be part of an identifier
NonIdentifier == {"(", ")", "\"", "'", "backtick", ",", "\n", "=", ";", " ", "."}

\* a test declaration starts at p: a call of it, not the tail of a longer
\* name, whose first argument opens with a quote that is closed later
DeclarationAt(text, p) ==
  /\ p + 4 <= Len(text)
  /\ text[p] = "i" /\ text[p+1] = "t" /\ text[p+2] = "("
  /\ (p = 1 \/ text[p-1] \in NonIdentifier)
  /\ text[p+3] \in Quotes
  /\ \E e \in (p+4)..Len(text) : text[e] = text[p+3]

\* where the title of the declaration at p ends: its closing quote
ClosingQuote(text, p) ==
  CHOOSE e \in (p+4)..Len(text) :
    text[e] = text[p+3] /\ \A j \in (p+4)..(e-1) : text[j] # text[p+3]

RECURSIVE DeclaredTitles(_, _)
\* the titles of the test declarations of text from index from on
DeclaredTitles(text, from) ==
  IF \E p \in from..Len(text) : DeclarationAt(text, p)
  THEN LET p == CHOOSE q \in from..Len(text) :
                  DeclarationAt(text, q) /\ \A j \in from..(q-1) : ~DeclarationAt(text, j)
           e == ClosingQuote(text, p)
       IN <<SubSeq(text, p + 4, e - 1)>> \o DeclaredTitles(text, e + 1)
  ELSE <<>>

\* C7: the extractor returns the titles of the test declarations of the
\* text, complete and in order, whatever surrounds them.
C7_ExtractorReturnsDeclaredTitles ==
  last.op = "extractTestInfo" => output = DeclaredTitles(input, 1)

-----------------------------------------------------------------------------
(* Claims about failure semantics and the destination tree *)

TemplateHas(f, rel) == Exists(f, TemplatePath \o rel)

\* C11: createExample for a registered example whose template holds a
\* manifest is never aborted by the payload copies: it patches the manifest,
\* writes the README and the generation-metadata file and ends successfully,
\* whether the payload files are on disk or not and whatever directories the
\* template holds.
C11_PayloadCopyNeverAborts ==
  (/\ last.op = "createExample"
   /\ Registered(last.id)
   /\ IsFile(last.pre, TemplatePath \o <<S("package.json")>>)) =>
    /\ last.status = "ok"
    /\ \A p \in Stamped(last.dest) : IsFile(fs, p)

\* the output tree of a bundle: patched manifest, category README, category
\* metadata and deployment script
BundleTree(d) ==
  { Append(d, S("package.json")), Append(d, S("README.md")),
    Append(d, S(".fhevm-category.json")), d \o <<S("scripts"), S("deploy.ts")>> }

\* the destination a command uses: its second argument, or the default
\* built from the first
CommandDest(suffix) ==
  IF last.dest # <<>> THEN last.dest ELSE << last.id \o <<"-", suffix>> >>

\* C12: the bundle command given a registered category ends successfully and
\* leaves the output tree at the destination, whatever the examples of the
\* category are.
C12_BundleCommandSucceeds ==
  (last.op = "create-fhevm-category" /\ RegisteredCategory(last.id)) =>
    /\ last.status = "ok"
    /\ \A p \in BundleTree(CommandDest("examples")) : IsFile(fs, p)

\* the filesystem without the tree at d
Fresh(f, d) == Without(f, {d})

\* the paths below d, relative to d
RelUnder(f, d) == {SubSeq(p, Len(d) + 1, Len(p)) : p \in Under(f, d)}

\* what the last call leaves when it is given a destination that does not
\* exist
OnFresh ==
  IF last.op = "createExample"
  THEN createExample(Fresh(last.pre, last.dest), examplesMap, <<0, 0, 0>>, last.id, last.dest)
  ELSE createCategory(Fresh(last.pre, last.dest), categories, examplesMap, <<0, 0, 0>>,
                      last.id, last.dest)

\* C13: after createExample(id, d) or createCategory(cat, d) completes, d
\* holds the files the same call leaves in a destination that did not
\* exist, and no others: what d held before does not show.
C13_FullReconciliation ==
  (last.op \in {"createExample", "createCategory"} /\ last.status = "ok") =>
    /\ OnFresh.status = "ok"
    /\ RelUnder(fs, last.dest) = RelUnder(OnFresh.fs, last.dest)

\* the IDs a run listed as its catalog
CatalogPrinted(log) ==
  LET idx == {i \in 1..Len(log) : log[i].ev = "catalog"}
      Nth[n \in 1..Cardinality(idx)] ==
        CHOOSE i \in idx : Cardinality({j \in idx : j <= i}) = n
  IN [n \in 1..Cardinality(idx) |-> log[Nth[n]].arg]

\* C14: a command run without arguments prints the catalog of the IDs valid
\* for it (example IDs for create-fhevm-example and generate-docs, category
\* IDs for create-fhevm-category), exits with status zero and writes no file.
C14_NoArgsPrintsOwnCatalog ==
  (last.op \in {"create-fhevm-example", "create-fhevm-category", "generate-docs"}
   /\ last.id = <<>>) =>
    /\ last.status = "exit0"
    /\ fs = last.pre
    /\ CatalogPrinted(last.log) =
         IF last.op = "create-fhevm-category" THEN Keys(categories) ELSE Keys(examplesMap)

-----------------------------------------------------------------------------
(* contracts/FHECounter.sol.  An euint32 is modelled by the value it        *)
(* encrypts, kept as two 16-bit halves so that FHE.add and FHE.sub wrap at  *)
(* 32 bits as the library does.                                             *)

MaxCalls == 3

HalfWord == 65536

Accounts == {"alice", "bob"}

\* FHE.asEuint32(n) for n below HalfWord
asEuint32(n) == [hi |-> 0, lo |-> n]

\* FHE.add(a, b): addition modulo 2^32
FheAdd(a, b) ==
  LET lo == a.lo + b.lo
      carry == IF lo >= HalfWord THEN 1 ELSE 0
  IN [hi |-> (a.hi + b.hi + carry) % HalfWord, lo |-> lo % HalfWord]

\* FHE.sub(a, b): subtraction modulo 2^32
FheSub(a, b) ==
  LET lo == a.lo - b.lo
      borrow == IF lo < 0 THEN 1 ELSE 0
  IN [hi |-> (a.hi - b.hi - borrow) % HalfWord, lo |-> lo % HalfWord]

\* the outcome of a transaction: the contract after it, or the contract as
\* it was when the transaction reverted
Mined(c) == [c |-> c, reverted |-> FALSE]
Revert(c) == [c |-> c, reverted |-> TRUE]

Emit(c, name, sender) == [c EXCEPT !.events = Append(@, [name |-> name, caller |-> sender])]

\* constructor(), sent by sender
constructor(sender) ==
  [ owner |-> sender, count |-> asEuint32(0), events |-> <<>>, requests |-> <<>> ]

getCount(c) == c.count

increment(c, sender) ==
  Mined(Emit([c EXCEPT !.count = FheAdd(@, asEuint32(1))], "CounterIncremented", sender))

\* FHE.fromExternal reverts when the proof does not match the input
incrementByAmount(c, sender, amount, proofOk) ==
  IF ~proofOk THEN Revert(c)
  ELSE Mined(Emit([c EXCEPT !.count = FheAdd(@, amount)], "CounterIncremented", sender))

decrement(c, sender) ==
  Mined(Emit([c EXCEPT !.count = FheSub(@, asEuint32(1))], "CounterDecremented", sender))

decrementByAmount(c, sender, amount, proofOk) ==
  IF ~proofOk THEN Revert(c)
  ELSE Mined(Emit([c EXCEPT !.count = FheSub(@, amount)], "CounterDecremented", sender))

\* a reset that leaves out the require on the sender
resetByAnyone(c, sender) ==
  Mined(Emit([c EXCEPT !.count = asEuint32(0)], "CounterReset", sender))

reset(c, sender) ==
  IF sender # c.owner THEN Revert(c)
  ELSE Mined(Emit([c EXCEPT !.count = asEuint32(0)], "CounterReset", sender))

requestCountDecryption(c, sender) ==
  IF sender # c.owner THEN Revert(c)
  ELSE Mined([c EXCEPT !.requests = Append(@, c.count)])

processCountDecryption(c, sender, requestId, decryptedCount) ==
  Mined([c EXCEPT !.events = Append(@, [name |-> "CountDecrypted", requestId |-> requestId,
                                        decryptedValue |-> decryptedCount])])

\* encrypted amounts a client may send
Amounts == {asEuint32(2), [hi |-> HalfWord - 1, lo |-> HalfWord - 1]}

InitContract ==
  /\ examplesMap = EXAMPLES_MAP
  /\ categories = CATEGORIES
  /\ fs = FullTemplate @@ Payloads
  /\ now = 0
  /\ last = [op |-> "none", id |-> <<>>, dest |-> <<>>, status |-> "ok",
             log |-> <<>>, pre |-> fs, before |-> NoCall]
  /\ steps = 0
  /\ input = <<>>
  /\ output = <<>>
  /\ \E deployer \in Accounts :
       chain = [ deployed |-> TRUE, deployer |-> deployer, c |-> constructor(deployer),
                 tx |-> [fn |-> "constructor", sender |-> deployer, reverted |-> FALSE,
                         before |-> constructor(deployer)],
                 calls |-> 0 ]

\* a transaction calling fn, sent by sender, with outcome res
Transaction(fn, sender, res) ==
  /\ chain' = [chain EXCEPT !.c = res.c,
                            !.tx = [fn |-> fn, sender |-> sender, reverted |-> res.reverted,
                                    before |-> chain.c],
                            !.calls = @ + 1]
  /\ UNCHANGED <<examplesMap, categories, fs, now, last, steps, input, output>>

Increment ==
  /\ chain.calls < MaxCalls
  /\ \E sender \in Accounts : Transaction("increment", sender, increment(chain.c, sender))

IncrementByAmount ==
  /\ chain.calls < MaxCalls
  /\ \E sender \in Accounts, amount \in Amounts, proofOk \in BOOLEAN :
       Transaction("incrementByAmount", sender, incrementByAmount(chain.c, sender, amount, proofOk))

Decrement ==
  /\ chain.calls < MaxCalls
  /\ \E sender \in Accounts : Transaction("decrement", sender, decrement(chain.c, sender))

DecrementByAmount ==
  /\ chain.calls < MaxCalls
  /\ \E sender \in Accounts, amount \in Amounts, proofOk \in BOOLEAN :
       Transaction("decrementByAmount", sender, decrementByAmount(chain.c, sender, amount, proofOk))

Reset ==
  /\ chain.calls < MaxCalls
  /\ \E sender \in Accounts : Transaction("reset", sender, reset(chain.c, sender))

RequestCountDecryption ==
  /\ chain.calls < MaxCalls
  /\ \E sender \in Accounts :
       Transaction("requestCountDecryption", sender, requestCountDecryption(chain.c, sender))

ProcessCountDecryption ==
  /\ chain.calls < MaxCalls
  /\ \E sender \in Accounts, decryptedCount \in {0, 1} :
       Transaction("processCountDecryption", sender,
                   processCountDecryption(chain.c, sender, Len(chain.c.requests), decryptedCount))

NextContract ==
  \/ Increment
  \/ IncrementByAmount
  \/ Decrement
  \/ DecrementByAmount
  \/ Reset
  \/ RequestCountDecryption
  \/ ProcessCountDecryption

SpecContract == InitContract /\ [][NextContract]_vars

\* C15: in FHECounter, after any calls by any accounts, owner is the
\* deploying account; reset and requestCountDecryption sent by another
\* account revert and leave the counter as it was; increment and decrement
\* succeed for every sender and emit CounterIncremented / CounterDecremented
\* naming the sender.
C15_CounterAccessControl ==
  /\ chain.c.owner = chain.deployer
  /\ (chain.tx.fn \in {"reset", "requestCountDecryption"} /\ chain.tx.sender # chain.deployer) =>
       (chain.tx.reverted /\ chain.c = chain.tx.before)
  /\ chain.tx.fn \in {"increment", "decrement"} =>
       /\ ~chain.tx.reverted
       /\ Len(chain.c.events) = Len(chain.tx.before.events) + 1
       /\ chain.c.events[Len(chain.c.events)] =
            [ name |-> IF chain.tx.fn = "increment" THEN "CounterIncremented"
                       ELSE "CounterDecremented",
              caller |-> chain.tx.sender ]
       /\ chain.c.count = IF chain.tx.fn = "increment"
                          THEN FheAdd(chain.tx.before.count, asEuint32(1))
                          ELSE FheSub(chain.tx.before.count, asEuint32(1))

\* C15 witness: an account other than the owner moved the counter off zero
\* and then had its reset refused
C15_Witness ==
  /\ chain.tx.fn = "reset" /\ chain.tx.sender # chain.deployer /\ chain.tx.reverted
  /\ chain.c.count # asEuint32(0)
  /\ \E i \in 1..Len(chain.c.events) :
       /\ chain.c.events[i].name = "CounterIncremented"
       /\ chain.c.events[i].caller = chain.tx.sender

PatchedKeys == {"name", "description", "keywords", "fhevmExample"}

KeysOf(fields) == {fields[i].k : i \in 1..Len(fields)}

\* C16: after createExample completes, the manifest of the destination has
\* the fields of the manifest of the template and the four patched ones
\* (name, description, keywords, fhevmExample), no others, and every field
\* other than those four has the value it has in the template.
C16_ManifestPatchFrame ==
  (last.op = "createExample" /\ last.status = "ok") =>
    LET t == last.pre[TemplatePath \o <<S("package.json")>>].content.fields
        m == ManifestOf(fs, last.dest)
    IN /\ KeysOf(m) = KeysOf(t) \cup PatchedKeys
       /\ Len(m) = Cardinality(KeysOf(m))
       /\ \A k \in KeysOf(t) \ PatchedKeys : Get(m, k) = Get(t, k)

\* C16 witness: the template manifest had fields the patch does not name,
\* and lacked one the patch adds
C16_Witness ==
  /\ last.op = "createExample" /\ last.status = "ok"
  /\ LET t == last.pre[TemplatePath \o <<S("package.json")>>].content.fields
     IN /\ {"version", "scripts"} \subseteq KeysOf(t)
        /\ "keywords" \notin KeysOf(t)
  /\ {"version", "scripts", "keywords"} \subseteq KeysOf(ManifestOf(fs, last.dest))

\* the regular files of the template, as paths relative to it
TemplateFiles(f) ==
  {SubSeq(p, Len(TemplatePath) + 1, Len(p)) : p \in {q \in Under(f, TemplatePath) : IsFile(f, q)}}

\* rel lies in a directory whose name is in skip
InSkippedDirectory(rel, skip) == \E i \in 1..(Len(rel) - 1) : rel[i] \in skip

\* the files createExample writes after the template copy
WrittenAfterCopy(id) ==
  { <<S("package.json")>>, <<S("README.md")>>, <<S(".fhevm-example.json")>>,
    <<S("contracts"), EntryOf(id).contractFile>>, <<S("test"), EntryOf(id).testFile>> }

\* C17: after createExample completes, no template file lying in a
\* directory named node_modules, artifacts, cache or .git has been placed in
\* the destination, and every other regular file of the template, whatever
\* its name, is in the destination at the same relative path with the same
\* content (but for the files the later steps write).
C17_CopySkipsExcludedDirectoriesOnly ==
  (last.op = "createExample" /\ last.status = "ok" /\ Registered(last.id)) =>
    \A rel \in TemplateFiles(last.pre) :
      IF InSkippedDirectory(rel, ExampleSkip)
      THEN (last.dest \o rel) \in DOMAIN fs => (last.dest \o rel) \in DOMAIN last.pre
      ELSE rel \notin WrittenAfterCopy(last.id) =>
             /\ IsFile(fs, last.dest \o rel)
             /\ fs[last.dest \o rel] = last.pre[TemplatePath \o rel]

\* the template files the copy of the materializer places in a destination
\* that did not exist, as relative paths
MaterializerPlaces ==
  LET copied == CopyDirectory(Run(Fresh(last.pre, last.dest)), TemplatePath, last.dest, ExampleSkip).fs
  IN {rel \in RelUnder(copied, last.dest) : IsFile(copied, last.dest \o rel)}

InPayloadDirectory(rel) == \E i \in 1..Len(rel) : rel[i] \in {S("contracts"), S("test")}

\* the payload files createCategory copies for the category of the last call
BundledPayload ==
  UNION { { <<S("contracts"), EntryOf(e).contractFile>>, <<S("test"), EntryOf(e).testFile>> } :
            e \in {x \in Range(CategoryOf(last.id).examples) : Registered(x)} }

\* the files createCategory writes after the template copy
BundleWrites ==
  { <<S("package.json")>>, <<S("README.md")>>, <<S(".fhevm-category.json")>>,
    <<S("scripts"), S("deploy.ts")>> }

TimesLogged(log, line) == Cardinality({i \in 1..Len(log) : log[i].arg = line})

\* C18 as stated: every template file the materializer places is placed by
\* createCategory as well.
C18_BundlerCopyEqualsMaterializerCopy ==
  (last.op = "createCategory" /\ last.status = "ok") =>
    \A rel \in MaterializerPlaces : IsFile(fs, last.dest \o rel)

\* C18 amended: createCategory copies the template once, whatever the number
\* of examples, and places the template files the materializer places except
\* those with a path component named contracts or test: these it leaves out.
C18_BundlerCopyOmitsPayloadDirectories ==
  (last.op = "createCategory" /\ last.status = "ok") =>
    /\ TimesLogged(last.log, S("Copied base template")) = 1
    /\ TimesLogged(last.log, S("Created directory")) <= 1
    /\ \A rel \in MaterializerPlaces :
         IF InPayloadDirectory(rel)
         THEN (last.dest \o rel) \in DOMAIN fs =>
                (last.dest \o rel) \in DOMAIN last.pre \/ rel \in BundledPayload
         ELSE /\ IsFile(fs, last.dest \o rel)
              /\ rel \notin BundleWrites => fs[last.dest \o rel] = last.pre[TemplatePath \o rel]

\* C18 witness: a bundle made in a destination that did not exist, from a
\* template with a contract of its own and a category of two IDs
C18_Witness ==
  /\ last.op = "createCategory" /\ last.status = "ok"
  /\ ~Exists(last.pre, last.dest)
  /\ Len(CategoryOf(last.id).examples) = 2
  /\ <<S("contracts"), <<"EncryptedContract", ".sol">> >> \in MaterializerPlaces
  /\ ~Exists(fs, last.dest \o <<S("contracts"), <<"EncryptedContract", ".sol">> >>)
  /\ IsFile(fs, last.dest \o <<S("hardhat.config.ts")>>)

\* the extensions of the file names of the model
Extensions == {".sol", ".ts", ".md"}

\* a file name without its extension
WithoutExtension(file) ==
  IF Len(file) > 1 /\ file[Len(file)] \in Extensions THEN SubSeq(file, 1, Len(file) - 1) ELSE file

RECURSIVE SuccessfullyBundled(_, _, _)
\* the contract files createCategory copies for the IDs of examples from
\* index i on, in order: those of the registered IDs whose file is in f
SuccessfullyBundled(f, examples, i) ==
  IF i > Len(examples) THEN <<>>
  ELSE (IF Registered(examples[i])
           /\ IsFile(f, Append(ContractsPath, EntryOf(examples[i]).contractFile))
        THEN <<EntryOf(examples[i]).contractFile>> ELSE <<>>)
       \o SuccessfullyBundled(f, examples, i + 1)

DeployScript(f, d) == f[d \o <<S("scripts"), S("deploy.ts")>>].content

\* C19: the deployment script createCategory writes has one step per
\* successfully bundled contract file and no other, in the order of the
\* examples of the category; each step deploys the component named by the
\* file name without its extension and records its address under that name.
C19_DeployStepPerBundledContract ==
  (last.op = "createCategory" /\ last.status = "ok") =>
    LET bundled == SuccessfullyBundled(last.pre, CategoryOf(last.id).examples, 1)
        script == DeployScript(fs, last.dest)
    IN /\ Len(script.steps) = Len(bundled)
       /\ \A i \in 1..Len(bundled) :
            /\ script.steps[i].factory = WithoutExtension(bundled[i])
            /\ script.steps[i].recordedAs = WithoutExtension(bundled[i])

RECURSIVE BundledExamples(_, _, _)
\* the IDs of examples from index i on that resolve in the registry, in
\* order
BundledExamples(table, examples, i) ==
  IF i > Len(examples) THEN <<>>
  ELSE (IF \E j \in 1..Len(table) : table[j].key = examples[i] THEN <<examples[i]>> ELSE <<>>)
       \o BundledExamples(table, examples, i + 1)

CategoryReadme(f, d) == f[Append(d, S("README.md"))].content

\* C20: the Included Examples section of the README createCategory writes
\* has one entry per example of the category that resolves in the registry,
\* showing its name, description and payload file paths, and no entry for
\* an ID that does not resolve.
C20_ReadmeListsBundledExamples ==
  (last.op = "createCategory" /\ last.status = "ok") =>
    LET bundled == BundledExamples(examplesMap, CategoryOf(last.id).examples, 1)
        included == CategoryReadme(fs, last.dest).included
    IN /\ Len(included) = Len(bundled)
       /\ \A i \in 1..Len(bundled) :
            included[i] = [ title |-> EntryOf(bundled[i]).name,
                            description |-> EntryOf(bundled[i]).description,
                            contract |-> S("contracts/") \o EntryOf(bundled[i]).contractFile,
                            tests |-> S("test/") \o EntryOf(bundled[i]).testFile ]

-----------------------------------------------------------------------------
(* Claims about the bundle when examples share payload file names *)

\* the registry with a second example built on the contract and the test
\* of fhe-counter
SharedPayloadExamplesMap ==
  EXAMPLES_MAP \o
  << [ key |-> <<"fhe", "-", "counter", "-", "v2">>,
       val |-> [ FheCounterConfig EXCEPT
                   !.name = S("FHE Counter V2"),
                   !.description = S("The encrypted counter with a second walkthrough") ] ] >>

\* the table of categories with both counters in the basic category
SharedPayloadCategories ==
  << CATEGORIES[1],
     [key |-> S("basic"),
      val |-> [CATEGORIES[2].val EXCEPT !.examples = <<FheCounter, SharedPayloadExamplesMap[3].key>>]] >>

InitShared ==
  /\ examplesMap = SharedPayloadExamplesMap
  /\ categories = SharedPayloadCategories
  /\ \E tg \in TemplateGaps, pg \in PayloadGaps :
       fs = Without(FullTemplate @@ Payloads, tg \cup pg)
  /\ now = 0
  /\ last = [op |-> "none", id |-> <<>>, dest |-> <<>>, status |-> "ok",
             log |-> <<>>, pre |-> fs, before |-> NoCall]
  /\ steps = 0
  /\ input = <<>>
  /\ output = <<>>
  /\ chain = NoContract

\* the bundler on a registry in which two examples of a category declare
\* the same payload files
SpecShared == InitShared /\ [][CallCreateCategory]_vars

\* the pairs of positions of examples that resolve and declare the same
\* file under field, the second being the last to declare it
Collisions(examples, field) ==
  { ij \in (1..Len(examples)) \X (1..Len(examples)) :
      /\ ij[1] < ij[2]
      /\ Registered(examples[ij[1]]) /\ Registered(examples[ij[2]])
      /\ EntryOf(examples[ij[1]])[field] = EntryOf(examples[ij[2]])[field]
      /\ \A k \in (ij[2] + 1)..Len(examples) :
           Registered(examples[k]) => EntryOf(examples[k])[field] # EntryOf(examples[ij[2]])[field] }

\* the file in destDir of the destination is the payload in srcDir of the
\* later example of every colliding pair
LaterPayloadWins(field, srcDir, destDir) ==
  LET examples == CategoryOf(last.id).examples
  IN \A ij \in Collisions(examples, field) :
       LET file == EntryOf(examples[ij[2]])[field]
       IN IsFile(last.pre, Append(srcDir, file)) =>
            /\ IsFile(fs, last.dest \o <<destDir, file>>)
            /\ fs[last.dest \o <<destDir, file>>].content = last.pre[Append(srcDir, file)].content

\* C21: when two examples of a category that resolve declare payload files
\* of the same name, createCategory (given a template with a manifest)
\* completes without error, and the file in the destination has the content
\* of the payload of the example that comes later in the list.
C21_LaterPayloadOverwritesEarlier ==
  (/\ last.op = "createCategory" /\ RegisteredCategory(last.id)
   /\ TemplateHas(last.pre, <<S("package.json")>>)
   /\ Collisions(CategoryOf(last.id).examples, "contractFile") # {}) =>
    /\ last.status = "ok"
    /\ LaterPayloadWins("contractFile", ContractsPath, S("contracts"))
    /\ LaterPayloadWins("testFile", TestPath, S("test"))

\* C21 witness: a bundle of two examples that declare the same contract
\* file, which is on disk, was made
C21_Witness ==
  /\ last.op = "createCategory" /\ last.status = "ok"
  /\ RegisteredCategory(last.id)
  /\ Collisions(CategoryOf(last.id).examples, "contractFile") # {}
  /\ IsFile(last.pre, Append(ContractsPath, FheCounterConfig.contractFile))
  /\ IsFile(fs, last.dest \o <<S("contracts"), FheCounterConfig.contractFile>>)
  /\ Len(DeployScript(fs, last.dest).steps) = 2

-----------------------------------------------------------------------------
(* Claims about the documentation generator *)

\* the links to example pages of the summary written below outputDir, each
\* with the path it names when resolved from the directory of the summary
ResolvedSummaryLinks(f, outputDir) ==
  LET summaryPath == outputDir \o <<S("docs"), S("SUMMARY.md")>>
      sections == f[summaryPath].content.sections
  IN UNION { { Parent(summaryPath) \o sections[s].links[l].target : l \in 1..Len(sections[s].links) } :
               s \in 1..Len(sections) }

\* C22: after generateAllDocumentation(outputRoot), every link of the
\* summary to an example page, resolved from the directory of the summary,
\* names a page that exists.
C22_SummaryLinksResolve ==
  (last.op = "generateAllDocumentation" /\ last.status = "ok") =>
    \A p \in ResolvedSummaryLinks(fs, last.dest) :
      IsFile(fs, p) /\ fs[p].content.type = "doc"

\* what may stand in the way of the pages below docs/: nothing, a regular
\* file named as a category directory, a directory named as a page, a
\* regular file named docs
DocsObstacles ==
  { <<>>,
    Dir(<<S("docs")>>) @@ File(<<S("docs"), S("enterprise")>>, Text(S("notes"))),
    Dir(<<S("docs")>>) @@ Dir(<<S("docs"), S("basic")>>) @@ Dir(DocPath(S("basic"), FheCounter)),
    File(<<S("docs")>>, Text(S("notes"))) }

InitObstructed ==
  /\ \E reg \in Registries :
       /\ examplesMap = reg.examples
       /\ categories = reg.categories
  /\ \E obstacle \in DocsObstacles : fs = FullTemplate @@ Payloads @@ obstacle
  /\ now = 0
  /\ last = [op |-> "none", id |-> <<>>, dest |-> <<>>, status |-> "ok",
             log |-> <<>>, pre |-> fs, before |-> NoCall]
  /\ steps = 0
  /\ input = <<>>
  /\ output = <<>>
  /\ chain = NoContract

\* the documentation generator where a page may be impossible to write
SpecObstructedDocs == InitObstructed /\ [][NextDocs]_vars

RECURSIVE SelectLines(_, _)
\* the lines of log that open with one of the texts of heads, in order
SelectLines(log, heads) ==
  IF Len(log) = 0 THEN <<>>
  ELSE (IF Len(log[1].arg) > 0 /\ log[1].arg[1] \in heads THEN <<log[1]>> ELSE <<>>)
       \o SelectLines(Tail(log), heads)

\* where generateDocumentation writes the page of id
PageOf(id) ==
  DocsField(Lookup(DOCS_CONFIG, id), "outputPath", <<S("docs"), id \o <<".md">> >>)

\* C23: generateAllDocumentation handles every entry of the registry once,
\* in the order of the registry: for each it either writes the page and
\* reports it, or reports the failure and goes on to the next; after the
\* last one it writes the summary, once, whether a page failed or not (it
\* ends with an exception only when the directory of the summary cannot be
\* made).
C23_AllDocsToleratesFailures ==
  last.op = "generateAllDocumentation" =>
    LET handled == SelectLines(last.log, {"Documentation generated: ", "Failed to generate docs for "})
        summaries == {i \in 1..Len(last.log) : last.log[i].arg = S("SUMMARY.md generated")}
        summaryPath == last.dest \o <<S("docs"), S("SUMMARY.md")>>
    IN /\ Len(handled) = Len(examplesMap)
       /\ \A i \in 1..Len(examplesMap) :
            LET id == examplesMap[i].key
            IN \/ /\ handled[i] = [ev |-> "log", arg |-> S("Documentation generated: ") \o Join(PageOf(id), S("/"))]
                  /\ IsFile(fs, PageOf(id))
                  /\ fs[PageOf(id)].content.example = id
               \/ /\ handled[i] = [ev |-> "warn", arg |-> S("Failed to generate docs for ") \o id]
                  /\ ~IsFile(fs, PageOf(id)) \/ fs[PageOf(id)].content.example # id
       /\ IF last.status = "ok"
          THEN /\ summaries = {Len(last.log)}
               /\ IsFile(fs, summaryPath)
               /\ fs[summaryPath].content.type = "summary"
          ELSE /\ summaries = {}
               /\ \E q \in Prefixes(Parent(summaryPath)) : IsFile(fs, q)

\* C23 witness: the page of the first example could not be written, the
\* page of a later one was, and the summary was written
C23_Witness ==
  /\ last.op = "generateAllDocumentation" /\ last.status = "ok"
  /\ [ev |-> "warn", arg |-> S("Failed to generate docs for ") \o examplesMap[1].key] \in Range(last.log)
  /\ ~IsFile(fs, PageOf(examplesMap[1].key))
  /\ IsFile(fs, PageOf(examplesMap[2].key))
  /\ PageOf(examplesMap[2].key) \notin DOMAIN last.pre
  /\ IsFile(fs, last.dest \o <<S("docs"), S("SUMMARY.md")>>)

-----------------------------------------------------------------------------
(* The comment scanner as a function of the text of a contract file *)

MaxLines == 4

\* lines of contract files: an open marker, text, a close marker, a
\* one-line comment, a close marker followed by an open marker, code, and
\* an empty line
ContractLines ==
  { <<"/**">>,
    <<" * ", "t">>,
    <<" ", "*/">>,
    <<"/**", "t", "*/">>,
    <<"*/", "/**">>,
    <<"c", ";">>,
    <<>> }

ContractTexts ==
  {Join(ls, <<"\n">>) : ls \in UNION {[1..n -> ContractLines] : n \in 1..MaxLines}}

InitScan ==
  /\ examplesMap = EXAMPLES_MAP
  /\ categories = CATEGORIES
  /\ fs = FullTemplate @@ Payloads
  /\ now = 0
  /\ last = [op |-> "none", id |-> <<>>, dest |-> <<>>, status |-> "ok",
             log |-> <<>>, pre |-> fs, before |-> NoCall]
  /\ steps = 0
  /\ input \in ContractTexts
  /\ output = <<>>
  /\ chain = NoContract

\* extractContractInfo reads a contract file whose content is input
ExtractContractInfo ==
  /\ last.op = "none"
  /\ LET filePath == DOCS_CONFIG[2].val.contractPath
     IN output' = extractContractInfo(File(filePath, Text(input)) @@ Dir(Parent(filePath)) @@ fs, filePath)
  /\ last' = [last EXCEPT !.op = "extractContractInfo"]
  /\ UNCHANGED <<examplesMap, categories, fs, now, steps, input, chain>>

SpecScan == InitScan /\ [][ExtractContractInfo]_vars

Opens(line) == \E i \in 1..Len(line) : line[i] = "/**"
Closes(line) == \E i \in 1..Len(line) : line[i] = "*/"

\* the lines of lines from s to e, each followed by a line break
RawText(lines, s, e) == Concat([k \in 1..(e - s + 1) |-> lines[s + k - 1] \o <<"\n">>])

\* where the block that opens at line s ends: the first line from s on with
\* a close marker, or the last line
BlockEnd(lines, s) ==
  IF \E e \in s..Len(lines) : Closes(lines[e])
  THEN CHOOSE e \in s..Len(lines) : Closes(lines[e]) /\ \A j \in s..(e-1) : ~Closes(lines[j])
  ELSE Len(lines)

RECURSIVE CommentBlocks(_, _)
\* the comment blocks of lines from line from on, in order
CommentBlocks(lines, from) ==
  IF \E s \in from..Len(lines) : Opens(lines[s])
  THEN LET s == CHOOSE q \in from..Len(lines) :
                  Opens(lines[q]) /\ \A j \in from..(q-1) : ~Opens(lines[j])
           e == BlockEnd(lines, s)
       IN <<RawText(lines, s, e)>> \o CommentBlocks(lines, e + 1)
  ELSE <<>>

-----------------------------------------------------------------------------
(* Claims about what the generators report and leave alone *)

\* text holds part as a run of consecutive tokens
Mentions(text, part) ==
  \E i \in 1..(Len(text) - Len(part) + 1) : SubSeq(text, i, i + Len(part) - 1) = part

\* log has a warning that names file
WarnsAbout(log, file) ==
  \E i \in 1..Len(log) : log[i].ev = "warn" /\ Mentions(log[i].arg, file)

\* the payload files the examples ids declare that are not in f
MissingPayload(f, ids) ==
  UNION { ({EntryOf(e).contractFile} \ Children(f, ContractsPath))
          \cup ({EntryOf(e).testFile} \ Children(f, TestPath)) :
            e \in {x \in ids : Registered(x)} }

\* C25: when a declared contract or test file of a registered example is
\* absent from disk, createExample and createCategory (given a template with
\* a manifest) print a warning that names the file, and still complete.
C25_MissingPayloadWarns ==
  /\ (/\ last.op = "createExample" /\ Registered(last.id)
      /\ TemplateHas(last.pre, <<S("package.json")>>)
      /\ TemplateHas(last.pre, <<S("test")>>)) =>
       /\ last.status = "ok"
       /\ \A file \in MissingPayload(last.pre, {last.id}) : WarnsAbout(last.log, file)
  /\ (/\ last.op = "createCategory" /\ RegisteredCategory(last.id)
      /\ TemplateHas(last.pre, <<S("package.json")>>)) =>
       /\ last.status = "ok"
       /\ \A file \in MissingPayload(last.pre, Range(CategoryOf(last.id).examples)) :
            WarnsAbout(last.log, file)

CategoryMetadata(f, d) == f[Append(d, S(".fhevm-category.json"))].content.fields

\* C26: after createCategory completes, the number of examples recorded in
\* the manifest (fhevmCategory.examples) and the list of examples recorded
\* in the category metadata file are those of the examples bundled, the IDs
\* of the category that resolve in the registry, not those requested.
C26_RecordedScopeIsBundledScope ==
  (last.op = "createCategory" /\ last.status = "ok") =>
    LET bundled == BundledExamples(examplesMap, CategoryOf(last.id).examples, 1)
    IN /\ Get(ManifestOf(fs, last.dest), "fhevmCategory").o.examples = Len(bundled)
       /\ Get(CategoryMetadata(fs, last.dest), "examples").l = bundled

\* p lies in the template tree or is a payload file or directory
InSourceTrees(p) ==
  IsPrefix(TemplatePath, p) \/ IsPrefix(ContractsPath, p) \/ IsPrefix(TestPath, p)

\* going from f to g, only paths under d were created or changed, but for
\* the directories that lead to d
OnlyUnder(f, g, d) ==
  \A p \in DOMAIN g :
    (p \notin DOMAIN f \/ g[p] # f[p]) => (IsPrefix(d, p) \/ (IsPrefix(p, d) /\ IsDir(g, p)))

\* going from f to g, the template tree and the payload files stayed as
\* they were
SourceTreesKept(f, g) ==
  \A p \in DOMAIN f : InSourceTrees(p) => (p \in DOMAIN g /\ g[p] = f[p])

\* C27: every call of createExample, createCategory, generateDocumentation
\* or generateAllDocumentation creates or changes files only under the
\* directory it was given, leaves the template tree and the payload files as
\* they were, and leaves both registries as they were.
C27_GeneratorsFrame ==
  [][ /\ examplesMap' = examplesMap
      /\ categories' = categories
      /\ OnlyUnder(fs, fs', last'.dest)
      /\ SourceTreesKept(fs, fs') ]_vars

\* the same frame for the materializer and the bundler, and what is left of
\* it for the documentation generator
C27_FrameButForDocsRoot ==
  [][ /\ examplesMap' = examplesMap
      /\ categories' = categories
      /\ last'.op \in {"createExample", "createCategory"} => OnlyUnder(fs, fs', last'.dest)
      /\ SourceTreesKept(fs, fs') ]_vars

\* C28: in the deployment script createCategory writes no two steps deploy
\* the same component, also when two examples of the category declare the
\* same contract file: the script has as many steps as the contracts
\* directory of the bundle has files.
C28_NoDuplicateDeploySteps ==
  (last.op = "createCategory" /\ last.status = "ok") =>
    LET script == DeployScript(fs, last.dest)
    IN /\ \A i, j \in 1..Len(script.steps) :
            i # j => script.steps[i].factory # script.steps[j].factory
       /\ Len(script.steps) = Cardinality(ContractsIn(fs, last.dest))

\* after line k a block is open: a line up to k has an open marker and no
\* line from that one to k has a close marker
OpenAfter(lines, k) ==
  \E s \in 1..k : Opens(lines[s]) /\ \A j \in s..k : ~Closes(lines[j])

\* line k belongs to a block
InBlock(lines, k) == Opens(lines[k]) \/ (k > 1 /\ OpenAfter(lines, k - 1))

\* the lines of lines whose number is in picked, in order, each followed by
\* a line break
PickedLines(lines, picked) ==
  Concat([k \in 1..Len(lines) |-> IF k \in picked THEN lines[k] \o <<"\n">> ELSE <<>>])

\* C29: the scanner of extractContractInfo appends every line of the file
\* to exactly one of comments and code, in the order of the file: the lines
\* of blocks to comments, the others to code; and after each line it is in
\* the in-comment state exactly when that line or an earlier one opened a
\* block that no line since, itself included, has closed.
C29_ScannerPartitionsLines ==
  last.op = "extractContractInfo" =>
    LET lines == SplitLines(input)
        inBlocks == {k \in 1..Len(lines) : InBlock(lines, k)}
    IN /\ output.comments = PickedLines(lines, inBlocks)
       /\ output.code = PickedLines(lines, (1..Len(lines)) \ inBlocks)
       /\ Len(output.comments) + Len(output.code) = Len(input) + 1
       /\ \A k \in 1..Len(lines) :
            ScanLines(SubSeq(lines, 1, k), 1,
                      [comments |-> <<>>, code |-> <<>>, inComment |-> FALSE]).inComment
              = OpenAfter(lines, k)

\* C29 witness: a file with code before a block, a line that closes the
\* block and opens the next, and that block open at the end of the file
C29_Witness ==
  /\ last.op = "extractContractInfo"
  /\ LET lines == SplitLines(input)
     IN /\ Len(lines) = 4
        /\ lines[1] = <<"c", ";">>
        /\ lines[2] = <<"/**">>
        /\ lines[3] = <<"*/", "/**">>
        /\ ~OpenAfter(lines, 3)
        /\ lines[4] = <<"/**">>
        /\ OpenAfter(lines, 4)
  /\ output.code = <<"c", ";", "\n">>
  /\ Len(output.comments) = 7

-----------------------------------------------------------------------------
(* The template copy into a destination inside the template *)

\* destinations inside base-template/: a directory of its own, and one
\* below a directory the copy skips
NestedPaths == {TemplatePath \o <<S("out")>>, TemplatePath \o <<S("cache"), S("out")>>}

\* a call of createExample or createCategory with a destination inside the
\* template tree
CallCreateInTemplate ==
  /\ steps < MaxSteps
  /\ \E d \in NestedPaths, ts \in Clock(3) :
       /\ \/ \E id \in ExampleArgs :
               Done("createExample", id, d, createExample(fs, examplesMap, ts, id, d))
          \/ \E cat \in CategoryArgs :
               Done("createCategory", cat, d, createCategory(fs, categories, examplesMap, ts, cat, d))
       /\ now' = ts[3]
  /\ UNCHANGED <<examplesMap, categories>>

SpecNested == Init /\ [][CallCreateInTemplate]_vars

\* the destination of the last call, relative to the template
DestInTemplate == SubSeq(last.dest, Len(TemplatePath) + 1, Len(last.dest))

\* the last call copied the template: its ID resolved and the template had
\* a manifest
CopiedTemplate ==
  /\ \/ last.op = "createExample" /\ Registered(last.id)
     \/ last.op = "createCategory" /\ RegisteredCategory(last.id)
  /\ TemplateHas(last.pre, <<S("package.json")>>)
  /\ TemplateHas(last.pre, <<S("test")>>)

\* C30: the template copy of createExample and createCategory comes to its
\* end also when the destination lies inside the template tree: the call
\* completes, the destination holds no copy of itself, and no path of the
\* copy lies deeper below the destination than the template is deep.
C30_TemplateCopyTerminates ==
  (CopiedTemplate /\ IsPrefix(TemplatePath, last.dest)) =>
    /\ last.status = "ok"
    /\ ~Exists(fs, last.dest \o DestInTemplate)
    /\ \A p \in Under(fs, last.dest) :
         \E q \in DOMAIN last.pre :
           IsPrefix(TemplatePath, q) /\ Len(p) - Len(last.dest) <= Len(q) - Len(TemplatePath)

====
